---- MODULE Spec2Model ----
(***************************************************************************)
(* Job orchestration and download engine of the hydrophone downloader:     *)
(* process_download_jobs and _attempt_fallback_download of                 *)
(* hydrophone/core/onc_client.py, as a state machine whose steps are the   *)
(* remote calls of the ONC client and the code between them.               *)
(***************************************************************************)
EXTENDS Integers, Sequences, FiniteSets, TLC

\* ------------------------------------------------------------------ bounds
\* largest fileCount a run response or _countFilesInProduct reports
MaxFileCount == 3
\* longest list of mixed per-file results returned by downloadDataProduct
MaxEntries == 2
\* largest value of args.fallback_retries
MaxFallbackRetries == 1
\* largest number of files of one archive listing
MaxArchiveFiles == 2
\* largest file count when the job list holds more than one job
MaxSeqFileCount == 1
\* latest instant of a deployment date, of the requested window and of the clock
MaxTime == 2
\* largest number of hydrophone devices getDevices returns
MaxDevices == 1
\* largest number of deployments getDeployments returns for one device
MaxDeployments == 2
\* largest max_retries retry_request is called with
MaxRetries == 3
\* largest number of data products request_onc_jobs asks for
MaxProducts == 2
\* largest number of items parallel_map is called with
MaxItems == 3
\* largest max_workers parallel_map is called with
MaxWorkers == 2

\* ------------------------------------------------------ program constants
\* settings.DEFAULT_ONC_TIMEOUT, the timeout the client is built with
DEFAULT_ONC_TIMEOUT == 60
\* the timeout of the client during the bulk download of a mat or pdf product
LongTimeout == 300

\* ------------------------------------------------- python string helpers
\* str.upper() on the status strings the remote service is modelled to send
Upper(s) ==
    CASE s = "complete" -> "COMPLETE"
      [] s = "Completed" -> "COMPLETED"
      [] s = "failed" -> "FAILED"
      [] OTHER -> s

\* str.lower() on the per-file status strings / extensions
Lower(s) ==
    CASE s = "COMPLETE" -> "complete"
      [] s = "Skipped" -> "skipped"
      [] s = "Download Error" -> "download error"
      [] s = "MAT" -> "mat"
      [] s = "PNG" -> "png"
      [] s = "B-THUMB.PNG" -> "b-thumb.png"
      [] OTHER -> s

\* 'error' in s, for lower-cased per-file status strings
ContainsError(s) == s \in {"error", "download error"}

\* ext.lower() in ('mat', 'pdf')
NeedsLongerWait(ext) == Lower(ext) \in {"mat", "pdf"}

\* ------------------------------------------------------ remote responses
\* what checkDataProduct can answer: a dict, a list holding one dict, an
\* empty list, a list holding a non-dict, something else, or an exception
CheckResponses ==
    {[shape |-> "dict", has |-> TRUE, searchHdrStatus |-> s] :
        s \in {"COMPLETE", "COMPLETED", "complete", "FAILED", "failed", "CANCELLED",
               "RUNNING"}}
    \cup {[shape |-> "dict", has |-> FALSE, searchHdrStatus |-> ""]}
    \cup {[shape |-> "list", has |-> TRUE, searchHdrStatus |-> s] : s \in {"COMPLETE", "FAILED"}}
    \cup {[shape |-> sh, has |-> FALSE, searchHdrStatus |-> ""] :
        sh \in {"emptylist", "badlist", "other", "raise"}}

\* what runDataProduct can answer or raise
RunResponses(most) ==
    {[kind |-> "httperror", code |-> c, perm |-> p, dpRunId |-> 0, hasRunIds |-> FALSE,
      runIds |-> <<>>, hasFileCount |-> FALSE, fileCount |-> 0] :
        c \in {400, 500}, p \in BOOLEAN}
    \cup {[kind |-> k, code |-> 0, perm |-> FALSE, dpRunId |-> 0, hasRunIds |-> FALSE,
           runIds |-> <<>>, hasFileCount |-> FALSE, fileCount |-> 0] : k \in {"error", "nondict"}}
    \cup {[kind |-> "dict", code |-> 0, perm |-> FALSE, dpRunId |-> r.id, hasRunIds |-> r.has,
           runIds |-> r.ids, hasFileCount |-> c >= 0, fileCount |-> IF c >= 0 THEN c ELSE 0] :
        r \in {[id |-> 7, has |-> FALSE, ids |-> <<>>], [id |-> 0, has |-> TRUE, ids |-> <<7>>],
               [id |-> 0, has |-> TRUE, ids |-> <<>>], [id |-> 0, has |-> FALSE, ids |-> <<>>]},
        c \in (-1)..most}

\* one entry of the list downloadDataProduct returns
Entries ==
    {[isdict |-> TRUE, status |-> s, downloaded |-> FALSE] :
        s \in {"complete", "COMPLETE", "error", "Download Error", "skipped", "running"}}
    \cup {[isdict |-> TRUE, status |-> "", downloaded |-> TRUE],
          [isdict |-> FALSE, status |-> "", downloaded |-> FALSE]}

\* what downloadDataProduct can answer or raise: short lists of any entries
\* and longer lists of one repeated entry
BulkResponses(most) ==
    {[kind |-> k, list |-> <<>>] : k \in {"raise", "nonlist"}}
    \cup {[kind |-> "list", list |-> l] :
            l \in UNION {[1..n -> Entries] : n \in 0..(IF most < MaxEntries THEN most ELSE MaxEntries)}}
    \cup {[kind |-> "list", list |-> [i \in 1..n |-> e]] :
            n \in 1..most, e \in Entries}

\* one entry of the "files" list of an archive listing
ArchiveNames == {"a.png", "b.png", "a-small.png", "B-THUMB.PNG"}
ArchiveEntries ==
    {[isdict |-> TRUE, filename |-> n] : n \in ArchiveNames}
    \cup {[isdict |-> TRUE, filename |-> ""], [isdict |-> FALSE, filename |-> ""]}

\* what getArchivefile can answer or raise
ListResponses ==
    {[kind |-> k, files |-> <<>>] : k \in {"httperror", "error", "nondict"}}
    \cup {[kind |-> "dict", files |-> l] :
            l \in UNION {[1..n -> ArchiveEntries] : n \in 0..MaxArchiveFiles}}

\* what getFile can do: write the file, raise FileExistsError, raise another exception
GetFileResponses == {"ok", "exists", "error"}

\* ---------------------------------------------------------------- inputs
\* the jobs request_onc_jobs prepares: a data-product job for the request id
\* r the service gave, or an archive job, which has no id of its own
JobSet(r) ==
    {[job_type |-> "dataproduct", request_info |-> r, device_code |-> "DEV1", ext |-> e] :
        e \in {"png", "mat"}}
    \cup {[job_type |-> "archive", request_info |-> 0, device_code |-> "DEV1", ext |-> e] :
        e \in {"png"}}

\* lists of at most two jobs, the request ids being distinct; two
\* deployments of one device give two archive jobs for the same device and
\* extension; the second job of a list is a png job
JobLists ==
    {<<>>} \cup {<<a>> : a \in JobSet(11)}
    \cup {<<a, b>> : a \in JobSet(11), b \in {j \in JobSet(12) : j.ext = "png"}}

ArgsSet ==
    {[test |-> t, yes |-> TRUE, has_fallback_retries |-> h, fallback_retries |-> n] :
        t \in BOOLEAN, h \in BOOLEAN, n \in {MaxFallbackRetries}}

\* test mode only changes the archive branch: it is drawn for lists with an archive job
Inputs ==
    {in \in JobLists \X ArgsSet :
        /\ in[2].test => \E i \in DOMAIN in[1] : in[1][i].job_type = "archive"
        /\ ~in[2].has_fallback_retries =>
              ~in[2].test /\ \E i \in DOMAIN in[1] : in[1][i].job_type = "dataproduct"}

\* the files of the output directory before the run
InitialDisks(jl) ==
    IF \E i \in DOMAIN jl : jl[i].job_type = "archive" THEN {{}, {"a.png"}} ELSE {{}}

\* ------------------------------------------------------------------ state
VARIABLES
    jobs, args,                 \* arguments of process_download_jobs
    most_files,                 \* largest file count the remote service reports
    timeout,                    \* onc_client.timeout
    disk,                       \* names of the files in output_path
    pc, idx,                    \* position in the code, index of the job in the for loop
    job_statuses, all_jobs_overall_success,
    status_info, job_succeeded, job_status_key,
    dp,                         \* locals of the data-product branch; final_complete:
                                \* final_onc_status was COMPLETE or COMPLETED; rechecked,
                                \* recheck_complete: the same for final_status_fb;
                                \* run_resp: what runDataProduct did; check_raw: the
                                \* searchHdrStatus of a post-run check that was not complete
    fb,                         \* locals of _attempt_fallback_download
    ar,                         \* locals of the archive branch; listing: the "files" of
                                \* the listing; names: potential_filenames; present: the
                                \* names found in output_path; got: the getFile calls and
                                \* what they did; prev: the archive job processed before
    calls,                      \* remote calls issued for the current job
    started,                    \* jobs whose first remote call was issued
    outcome,                    \* status of every finished job, in order
    dl_result,                  \* what downloadDataProduct answered for the current job
    raised,                     \* an exception left process_download_jobs
    fod,                        \* arguments and locals of find_overlapping_deployments
    rdl,                        \* params and locals of run_download_logic
    rr,                         \* arguments and locals of retry_request and of its caller
    pm                          \* arguments, futures and results of parallel_map

vars == <<jobs, args, most_files, timeout, disk, pc, idx, job_statuses,
          all_jobs_overall_success, status_info, job_succeeded, job_status_key, dp, fb, ar,
          calls, started,
          outcome, dl_result, raised, fod, rdl, rr, pm>>

NoDetails == [files_expected |-> 0, files_downloaded |-> 0, files_skipped |-> 0, files_failed |-> 0]
InitStatusInfo == [status |-> "Unknown", reason |-> "", details |-> NoDetails]

NoRunInfo == [isdict |-> FALSE, hasFileCount |-> FALSE, fileCount |-> 0]
InitDp == [trigger_fallback |-> FALSE, run_info |-> NoRunInfo,
           run_succeeded |-> FALSE, job_status_final |-> "UNKNOWN", actual_run_id |-> 0,
           files_dp_downloaded |-> 0, files_dp_skipped |-> 0, files_dp_failed |-> 0,
           files_dp_expected |-> -1, original_timeout |-> 0,
           final_complete |-> FALSE, rechecked |-> FALSE, recheck_complete |-> FALSE,
           run_resp |-> "none", check_raw |-> ""]

InitFb == [file_count |-> -1, attempt |-> 0, file_list_infos |-> <<>>, pos |-> 0,
           files_downloaded_count |-> 0, files_failed_count |-> 0, files_skipped_count |-> 0,
           gave_up |-> "no", existed |-> FALSE, gen |-> "no", tried |-> <<>>]

\* what is remembered of the archive job that was processed just before
NoPrev == [valid |-> FALSE, names |-> <<>>, clean |-> FALSE]

InitAr == [files_found |-> 0, files_existing |-> 0, files_skipped |-> 0,
           files_downloaded |-> 0, files_failed |-> 0, listing_failed |-> FALSE,
           files_to_download |-> <<>>, i |-> 0,
           listing |-> <<>>, names |-> <<>>, present |-> {}, got |-> <<>>,
           prev |-> NoPrev]

NoCalls == [run |-> 0, check |-> 0, bulk |-> 0, count |-> 0, info |-> 0, file |-> 0,
            fallback |-> 0, list |-> 0, getfile |-> 0]
NoBulk == [kind |-> "none", len |-> 0, succ |-> 0, errs |-> 0, skip |-> 0, other |-> 0]

\* find_overlapping_deployments is not running
NoFod == [pc |-> "idle", start_utc |-> 0, end_utc |-> 0, utcnow |-> 0,
          all_hydrophones |-> 0, dev |-> 0, device_deployments |-> 0, k |-> 0,
          deployments |-> <<>>, skipped_deployments_count |-> 0,
          skipped_devices_count |-> 0, error |-> "none", begin_skips |-> 0,
          last |-> [valid |-> FALSE, pos |-> <<0, 0>>, isdict |-> FALSE,
                    begin |-> [kind |-> "absent", t |-> 0, aware |-> FALSE, off |-> 0],
                    end |-> [kind |-> "absent", t |-> 0, aware |-> FALSE, off |-> 0]]]

\* a date of params: absent, or a datetime with the local time t, naive or
\* with the UTC offset off
NoDate == [kind |-> "absent", t |-> 0, aware |-> FALSE, off |-> 0]

\* run_download_logic is not running
NoRdl == [pc |-> "idle", has_service |-> FALSE, has_deps |-> FALSE, token |-> FALSE,
          start_dt |-> NoDate, end_dt |-> NoDate, tz_off |-> 0, sys_off |-> 0,
          test |-> FALSE, yes |-> FALSE,
          skip_discovery |-> FALSE, onc_service |-> FALSE, chosen_deps |-> FALSE,
          has_window |-> FALSE, start_utc |-> 0, end_utc |-> 0,
          requested |-> FALSE, req_start |-> 0, req_end |-> 0,
          processed |-> FALSE, ret |-> -1, error |-> "none"]

\* retry_request is not running
\* the locals of one retry_request call
NoCall == [attempt |-> 0, calls |-> 0, slept |-> <<>>, seen |-> <<>>,
           last |-> "none", result |-> "none"]

NoRr == [pc |-> "idle", max_retries |-> 0, initial_wait |-> 0, attempt |-> 0,
         calls |-> 0, slept |-> <<>>, seen |-> <<>>, last |-> "none", result |-> "none",
         products |-> 0, product |-> 0, issued |-> 0, failures |-> 0,
         jobs |-> 0, given_up |-> FALSE, error |-> "none", exit_code |-> -1]

\* parallel_map is not running
NoPm == [pc |-> "idle", n |-> 0, max_workers |-> 0, ignore_errors |-> FALSE,
         st |-> <<>>, out |-> <<>>, collected |-> {}, results |-> <<>>,
         errors |-> 0, shutdown |-> FALSE, completed |-> 0, loaded |-> <<>>]

Init ==
    /\ \E in \in Inputs : jobs = in[1] /\ args = in[2]
    /\ most_files = IF Len(jobs) <= 1 THEN MaxFileCount ELSE MaxSeqFileCount
    /\ timeout = DEFAULT_ONC_TIMEOUT
    /\ disk \in InitialDisks(jobs)
    /\ pc = "loop"
    /\ idx = 1
    /\ job_statuses = <<>>
    /\ all_jobs_overall_success = TRUE
    /\ status_info = InitStatusInfo
    /\ job_succeeded = FALSE
    /\ job_status_key = ""
    /\ dp = InitDp
    /\ fb = InitFb
    /\ ar = InitAr
    /\ calls = NoCalls
    /\ started = {}
    /\ outcome = <<>>
    /\ dl_result = NoBulk
    /\ raised = FALSE
    /\ fod = NoFod
    /\ rdl = NoRdl
    /\ rr = NoRr
    /\ pm = NoPm

Job == jobs[idx]

\* f"Req_{request_id}_{device_code}_{ext}" and f"Archive_{device_code}_{ext}"
JobKey(j) ==
    IF j.job_type = "dataproduct"
    THEN "Req_" \o ToString(j.request_info) \o "_" \o j.device_code \o "_" \o j.ext
    ELSE "Archive_" \o j.device_code \o "_" \o j.ext

\* the names an archive job listed and whether every getFile call of it
\* returned normally, kept while the next job is an archive job too
PrevRun(a, i) ==
    IF i > 1 /\ jobs[i].job_type = "archive" /\ jobs[i - 1].job_type = "archive"
    THEN [valid |-> TRUE, names |-> a.names,
          clean |-> ~a.listing_failed /\ \A k \in DOMAIN a.got : a.got[k].result = "ok"]
    ELSE NoPrev

\* the head of the for loop: next job and its fresh locals, or the summary and return
StartJob ==
    /\ pc = "loop"
    /\ idx <= Len(jobs)
    /\ status_info' = InitStatusInfo
    /\ job_succeeded' = FALSE
    /\ job_status_key' = JobKey(Job)
    /\ dp' = InitDp
    /\ fb' = InitFb
    /\ ar' = [InitAr EXCEPT !.prev = PrevRun(ar, idx)]
    /\ calls' = NoCalls
    /\ dl_result' = NoBulk
    /\ pc' = IF Job.job_type = "dataproduct" THEN "run"
             ELSE IF Job.job_type = "archive" THEN "list" ELSE "store"
    /\ UNCHANGED <<rdl, rr, pm, fod, jobs, args, most_files, disk, timeout, idx, job_statuses, all_jobs_overall_success,
                   started, outcome, raised>>

Return ==
    /\ pc = "loop"
    /\ idx > Len(jobs)
    /\ pc' = "done"
    /\ UNCHANGED <<rdl, rr, pm, fod, jobs, args, most_files, disk, ar, timeout, idx, job_statuses, all_jobs_overall_success,
                   status_info, job_succeeded, job_status_key, dp, fb, calls, started,
                   outcome, dl_result, raised>>

\* ------------------------------------------------ step 1: run and wait
\* dict.get('fileCount', -1)
GetFileCount(ri) == IF ri.hasFileCount THEN ri.fileCount ELSE -1

\* a parser that takes a run id for granted
ParseRunId_Default(r) == 7

\* the run id read from the run response: dpRunId, else the first of runIds
ParseRunId(r) ==
    IF r.dpRunId = 0 /\ r.hasRunIds /\ Len(r.runIds) > 0 THEN r.runIds[1] ELSE r.dpRunId

\* a handler that knows no permission error
IsPermissionError_Never(r) == FALSE

\* the HTTPError handler of the run step: a 400 with the permission text is a skip
IsPermissionError(r) == r.code = 400 /\ r.perm

\* a handler that lets the exception of the run step leave the function
RunErrHandler_Propagates(o) == [o EXCEPT !.raises = TRUE]

\* the handler of an exception of the run step that is no HTTPError
RunErrHandler(o) == [o EXCEPT !.job_status_final = "RUN_ERROR"]

\* the effect of runDataProduct and of the parsing of its answer, with the
\* handlers of the run step: the locals and the status it sets, and whether
\* an exception leaves the function
RunOutcome(r) ==
    LET none == [raises |-> FALSE, status |-> "Unknown", reason |-> "", job_succeeded |-> FALSE,
                 run_info |-> NoRunInfo, actual_run_id |-> 0, files_dp_expected |-> -1,
                 run_succeeded |-> FALSE, job_status_final |-> "UNKNOWN"]
    IN
    CASE r.kind = "httperror" /\ IsPermissionError(r) ->
            [none EXCEPT !.status = "Skipped", !.reason = "Permissions Error (API 71)",
                         !.job_succeeded = TRUE, !.job_status_final = "RUN_ERROR"]
      [] r.kind = "httperror" /\ ~IsPermissionError(r) ->
            [none EXCEPT !.status = "Failed", !.reason = "Run Step HTTP Error",
                         !.job_status_final = "RUN_ERROR"]
      [] r.kind = "error" -> RunErrHandler(none)
      [] r.kind = "nondict" -> [none EXCEPT !.job_status_final = "INVALID_RESPONSE"]
      [] r.kind = "dict" ->
            LET ri == [isdict |-> TRUE, hasFileCount |-> r.hasFileCount,
                       fileCount |-> r.fileCount]
                rid == ParseRunId(r)
            IN [none EXCEPT !.run_info = ri, !.actual_run_id = rid,
                            !.files_dp_expected = GetFileCount(ri),
                            !.run_succeeded = (rid # 0),
                            !.job_status_final = IF rid # 0 THEN @ ELSE "INVALID_RUN_INFO"]

\* what runDataProduct did, as the remote service sees it: a 400 with the
\* permission text, another HTTP error, another exception, an answer that
\* is no dict, a dict without dpRunId and without a first runIds element, or
\* a dict with a run id
RunRespKind(r) ==
    CASE r.kind = "httperror" -> IF r.code = 400 /\ r.perm THEN "perm" ELSE "httperror"
      [] r.kind = "dict" ->
            IF r.dpRunId # 0 \/ (r.hasRunIds /\ r.runIds # <<>>) THEN "dict_id" ELSE "dict_noid"
      [] OTHER -> r.kind

\* step 1 up to the status check: runDataProduct is called
RunStep ==
    /\ pc = "run"
    /\ \E r \in RunResponses(most_files) :
        LET o == RunOutcome(r) IN
        /\ calls' = [calls EXCEPT !.run = @ + 1]
        /\ started' = started \cup {idx}
        /\ raised' = o.raises
        /\ status_info' = [status_info EXCEPT !.status = o.status, !.reason = o.reason]
        /\ job_succeeded' = o.job_succeeded
        /\ dp' = [dp EXCEPT !.run_info = o.run_info,
                            !.actual_run_id = o.actual_run_id,
                            !.files_dp_expected = o.files_dp_expected,
                            !.run_succeeded = o.run_succeeded,
                            !.job_status_final = o.job_status_final,
                            !.run_resp = RunRespKind(r)]
        /\ pc' = IF o.raises THEN "raised"
                 ELSE IF o.run_succeeded THEN "check" ELSE "final"
    /\ UNCHANGED <<rdl, rr, pm, fod, jobs, args, most_files, disk, ar, timeout, idx, job_statuses,
                   all_jobs_overall_success, job_status_key, fb, outcome, dl_result>>

\* the status string read from a checkDataProduct answer by process_download_jobs;
\* err when the call or the parsing raises
ParseFinalStatus(r) ==
    CASE r.shape \in {"raise", "badlist"} -> [err |-> TRUE, status |-> ""]
      [] r.shape \in {"dict", "list"} ->
            [err |-> FALSE, status |-> Upper(IF r.has THEN r.searchHdrStatus ELSE "?")]
      [] OTHER -> [err |-> FALSE, status |-> "?"]

IsComplete(s) == s \in {"COMPLETE", "COMPLETED"}

\* a status check that never resolves the job by itself
ZeroFilesResolves_Never(expected) == FALSE

\* a completed run with zero files resolves the job at once
ZeroFilesResolves(expected) == expected = 0

\* a gate that lets every checked run into the download stage
BulkDue_Always(run_succeeded, succeeded) == TRUE

\* the gate of step 2: the run stage succeeded and the job is not resolved yet
BulkDue(run_succeeded, succeeded) == run_succeeded /\ ~succeeded

\* the post-run status check
CheckStatus ==
    /\ pc = "check"
    /\ \E r \in CheckResponses :
        LET p == ParseFinalStatus(r) IN
        /\ calls' = [calls EXCEPT !.check = @ + 1]
        /\ CASE p.err ->
                /\ dp' = [dp EXCEPT !.run_succeeded = FALSE,
                                    !.job_status_final = "STATUS_CHECK_ERROR"]
                /\ UNCHANGED <<status_info, job_succeeded>>
             [] ~p.err /\ IsComplete(p.status) ->
                /\ job_succeeded' = ZeroFilesResolves(dp.files_dp_expected)
                /\ status_info' =
                     IF ZeroFilesResolves(dp.files_dp_expected)
                     THEN [status_info EXCEPT !.status = "Success",
                                              !.reason = "0 Files Generated"]
                     ELSE status_info
                /\ dp' = [dp EXCEPT !.final_complete = TRUE]
             [] ~p.err /\ p.status \in {"FAILED", "CANCELLED"} ->
                /\ status_info' = [status_info EXCEPT !.status = "Failed",
                                                      !.reason = "ONC Status " \o p.status]
                /\ dp' = [dp EXCEPT !.run_succeeded = FALSE,
                                    !.check_raw = IF r.has THEN r.searchHdrStatus ELSE ""]
                /\ UNCHANGED job_succeeded
             [] OTHER ->
                /\ status_info' = [status_info EXCEPT !.status = "Failed",
                                       !.reason = "Unknown ONC Status " \o p.status]
                /\ dp' = [dp EXCEPT !.run_succeeded = FALSE,
                                    !.check_raw = IF r.has THEN r.searchHdrStatus ELSE ""]
                /\ UNCHANGED job_succeeded
        /\ pc' = IF BulkDue(dp'.run_succeeded, job_succeeded') THEN "step2" ELSE "final"
    /\ UNCHANGED <<rdl, rr, pm, fod, jobs, args, most_files, disk, ar, timeout, idx, job_statuses, all_jobs_overall_success,
                   job_status_key, fb, started, outcome, dl_result, raised>>

\* ------------------------------------------- step 2: bulk download stage
\* the download is tried for a run that succeeded and is not resolved yet;
\* the client timeout is raised for the slow product types during the call
Step2Begin ==
    /\ pc = "step2"
    /\ BulkDue(dp.run_succeeded, job_succeeded)
    /\ dp.actual_run_id # 0
    /\ dp' = [dp EXCEPT !.original_timeout = timeout]
    /\ timeout' = IF NeedsLongerWait(Job.ext) THEN LongTimeout ELSE timeout
    /\ calls' = [calls EXCEPT !.bulk = @ + 1]
    /\ pc' = "bulk"
    /\ UNCHANGED <<rdl, rr, pm, fod, jobs, args, most_files, disk, ar, idx, job_statuses, all_jobs_overall_success, status_info,
                   job_succeeded, job_status_key, fb, started, outcome, dl_result, raised>>

\* classification of one entry of the result list
IsSucc(e) == e.isdict /\ (Lower(e.status) = "complete" \/ e.downloaded)
IsErr(e) == e.isdict /\ ContainsError(Lower(e.status))
IsSkip(e) == e.isdict /\ Lower(e.status) = "skipped"

NumSucc(l) == Cardinality({i \in DOMAIN l : IsSucc(l[i])})
NumErr(l) == Cardinality({i \in DOMAIN l : IsErr(l[i])})
NumSkip(l) == Cardinality({i \in DOMAIN l : IsSkip(l[i])})
NumOther(l) == Cardinality({i \in DOMAIN l : ~IsSucc(l[i]) /\ ~IsErr(l[i]) /\ ~IsSkip(l[i])})

\* a chain without the branch for successful downloads
BulkDecision_NoSuccess(downloaded, skipped, failed) ==
    IF skipped > 0 THEN "exist"
    ELSE IF failed > 0 THEN "errors"
    ELSE "unclear"

\* the if/elif chain over the three counts of a non-empty result list
BulkDecision(downloaded, skipped, failed) ==
    IF skipped > 0 THEN "exist"
    ELSE IF failed > 0 THEN "errors"
    ELSE IF downloaded > 0 THEN "success"
    ELSE "unclear"

\* a handler that marks the job Failed instead of asking for the fallback
DlErrHandler_Fails(o) == [o EXCEPT !.status = "Failed", !.reason = "Download Error"]

\* the handler of an exception of downloadDataProduct
DlErrHandler(o) == [o EXCEPT !.trigger_fallback = TRUE]

\* the effect of the try block around downloadDataProduct on an answer r:
\* the fallback trigger, the resolution of the job, the three counts, and
\* whether an exception leaves the function
BulkOutcome(r, expected) ==
    LET l == r.list
        d == NumSucc(l)
        f == NumErr(l)
        k == NumSkip(l)
        dec == BulkDecision(d, k, f)
        none == [raises |-> FALSE, trigger_fallback |-> FALSE, job_succeeded |-> FALSE,
                 status |-> "Unknown", reason |-> "", files_dp_downloaded |-> 0,
                 files_dp_skipped |-> 0, files_dp_failed |-> 0]
    IN
    CASE r.kind = "raise" -> DlErrHandler(none)
      [] r.kind = "nonlist" -> [none EXCEPT !.trigger_fallback = TRUE]
      [] r.kind = "list" /\ Len(l) = 0 /\ expected = 0 ->
            [none EXCEPT !.job_succeeded = TRUE, !.status = "Success",
                         !.reason = "0 Files Generated (Confirmed)"]
      [] r.kind = "list" /\ Len(l) = 0 /\ expected # 0 ->
            [none EXCEPT !.trigger_fallback = TRUE]
      [] r.kind = "list" /\ Len(l) > 0 ->
            [none EXCEPT !.files_dp_downloaded = IF dec = "exist" THEN 0 ELSE d,
                         !.files_dp_skipped = k,
                         !.files_dp_failed = f,
                         !.trigger_fallback = dec \in {"errors", "unclear"},
                         !.job_succeeded = dec \in {"exist", "success"},
                         !.status = IF dec \in {"exist", "success"} THEN "Success"
                                    ELSE "Unknown",
                         !.reason = IF dec = "exist" THEN "Files Already Exist" ELSE ""]

\* a client that keeps the timeout of the call
RestoreTimeout_Keep(original, current) == current

\* the finally clause around downloadDataProduct
RestoreTimeout(original, current) == original

\* downloadDataProduct returns or raises; the timeout is restored and the
\* result is analysed
BulkReturn ==
    /\ pc = "bulk"
    /\ \E r \in BulkResponses(most_files) :
        LET o == BulkOutcome(r, dp.files_dp_expected) IN
        /\ dl_result' = [kind |-> r.kind, len |-> Len(r.list), succ |-> NumSucc(r.list),
                         errs |-> NumErr(r.list), skip |-> NumSkip(r.list),
                         other |-> NumOther(r.list)]
        /\ timeout' = RestoreTimeout(dp.original_timeout, timeout)
        /\ raised' = o.raises
        /\ dp' = [dp EXCEPT !.trigger_fallback = o.trigger_fallback,
                            !.files_dp_downloaded = o.files_dp_downloaded,
                            !.files_dp_skipped = o.files_dp_skipped,
                            !.files_dp_failed = o.files_dp_failed]
        /\ job_succeeded' = o.job_succeeded
        /\ status_info' = [status_info EXCEPT !.status = o.status, !.reason = o.reason]
        /\ pc' = IF o.raises THEN "raised"
                 ELSE IF o.trigger_fallback /\ ~o.job_succeeded THEN "step3" ELSE "final"
    /\ UNCHANGED <<rdl, rr, pm, fod, jobs, args, most_files, disk, ar, idx, job_statuses,
                   all_jobs_overall_success, job_status_key, fb, calls, started, outcome>>

\* -------------------------------------- step 3: status re-check, fallback
\* the status re-check before the fallback; any exception leaves 'UNKNOWN'
ParseFallbackStatus(r) ==
    LET p == ParseFinalStatus(r) IN IF p.err THEN "UNKNOWN" ELSE p.status

\* a re-check whose answer is ignored
RecheckAllows_Any(s) == TRUE

\* whether the re-checked status lets the fallback run
RecheckAllows(s) == IsComplete(s)

\* checkDataProduct again; the fallback is called only for a complete request
Recheck ==
    /\ pc = "step3"
    /\ dp.trigger_fallback /\ ~job_succeeded
    /\ dp.actual_run_id # 0
    /\ \E r \in CheckResponses :
        /\ calls' = [calls EXCEPT !.check = @ + 1,
                                  !.fallback = IF RecheckAllows(ParseFallbackStatus(r))
                                               THEN @ + 1 ELSE @]
        /\ dp' = [dp EXCEPT !.rechecked = TRUE,
                            !.recheck_complete = IsComplete(ParseFallbackStatus(r))]
        /\ pc' = IF RecheckAllows(ParseFallbackStatus(r)) THEN "fb_start" ELSE "final"
    /\ UNCHANGED <<rdl, rr, pm, fod, jobs, args, most_files, disk, ar, timeout, idx, job_statuses,
                   all_jobs_overall_success, status_info, job_succeeded, job_status_key, fb,
                   started, outcome, dl_result, raised>>

\* ------------------------------------------- _attempt_fallback_download
\* what the caller does with the value the fallback returns
AfterFallback(success) ==
    /\ job_succeeded' = success
    /\ status_info' = [status_info EXCEPT
                         !.status = IF success THEN "Success" ELSE "Failed",
                         !.reason = IF success THEN "Fallback Attempted (Succeeded/Partial)"
                                    ELSE "Fallback Attempted (Failed)"]
    /\ dp' = [dp EXCEPT
                !.files_dp_downloaded = IF success THEN dp.files_dp_expected ELSE 0,
                !.files_dp_failed = IF success THEN 0 ELSE dp.files_dp_expected]
    /\ pc' = "final"

\* a count query whose failure passes for an empty product
AfterCount_Lenient(n) == IF n <= 0 THEN "return_true" ELSE "fb_gen"

\* where the function goes once the file count is settled
AfterCount(n) == IF n < 0 THEN "return_false" ELSE IF n = 0 THEN "return_true" ELSE "fb_gen"

\* the function continues, or returns to its caller
FallbackGoes(where, newfb) ==
    /\ fb' = newfb
    /\ CASE where = "return_true" -> AfterFallback(TRUE)
         [] where = "return_false" -> AfterFallback(FALSE)
         [] OTHER -> /\ pc' = where
                     /\ UNCHANGED <<status_info, job_succeeded, dp>>

\* entry: the file count of the run response is used when it is there;
\* without args.fallback_retries the polling loop cannot start and the
\* AttributeError reaches the handler around the whole job
FbStart ==
    /\ pc = "fb_start"
    /\ LET fc0 == IF dp.run_info.isdict THEN GetFileCount(dp.run_info) ELSE -1
           fc == IF fc0 >= 0 THEN fc0 ELSE -1
       IN  IF fc < 0 /\ ~args.has_fallback_retries
           THEN /\ status_info' = [status_info EXCEPT !.status = "Failed",
                                       !.reason = "Unexpected Processing Error"]
                /\ pc' = "store"
                /\ UNCHANGED <<fb, job_succeeded, dp>>
           ELSE FallbackGoes(IF fc < 0 THEN "fb_poll" ELSE AfterCount(fc),
                             [fb EXCEPT !.file_count = fc, !.attempt = 0])
    /\ UNCHANGED <<rdl, rr, pm, fod, jobs, args, most_files, disk, ar, timeout, idx, job_statuses,
                   all_jobs_overall_success, job_status_key, calls, started, outcome,
                   dl_result, raised>>

\* what _countFilesInProduct can answer (-2 stands for an exception)
CountResponses(most) == (-2)..most

\* the status string the polling loop reads; "" when the answer has no usable structure
ParsePollStatus(r) ==
    IF r.shape \in {"dict", "list"}
    THEN Upper(IF r.has THEN r.searchHdrStatus ELSE "UNKNOWN")
    ELSE ""

\* a loop with one iteration more
PollAttempts_OneMore(retries) == 0..(retries + 1)

\* range(args.fallback_retries + 1), the values of attempt in the polling loop
PollAttempts(retries) == 0..retries

\* inside an iteration: another one is to follow, after a wait
PollAgain(attempt, retries) == attempt < retries


\* one iteration of the polling loop; gave_up tells why the loop ended
\* without a file count: the call raised, the status was FAILED or
\* CANCELLED, the count query failed, or the attempts ran out
FbPoll ==
    /\ pc = "fb_poll"
    /\ fb.attempt \in PollAttempts(args.fallback_retries)
    /\ \E r \in CheckResponses, c \in CountResponses(most_files) :
        LET st == ParsePollStatus(r)
            again == PollAgain(fb.attempt, args.fallback_retries)
            more == (fb.attempt + 1) \in PollAttempts(args.fallback_retries)
            next == [fb EXCEPT !.attempt = @ + 1]
            out == [next EXCEPT !.gave_up = "exhausted"]
        IN
        /\ c # -1 => (r.shape # "raise" /\ IsComplete(st))
        /\ calls' = [calls EXCEPT !.check = @ + 1,
                                  !.count = IF r.shape # "raise" /\ IsComplete(st)
                                            THEN @ + 1 ELSE @]
        /\ CASE r.shape = "raise" ->
                    FallbackGoes("return_false",
                                 [next EXCEPT !.file_count = -1, !.gave_up = "raise"])
             [] r.shape # "raise" /\ st = "" ->
                    IF again /\ more THEN FallbackGoes("fb_poll", next)
                    ELSE FallbackGoes("return_false", out)
             [] r.shape # "raise" /\ IsComplete(st) ->
                    FallbackGoes(AfterCount(IF c < 0 THEN -1 ELSE c),
                                 [next EXCEPT !.file_count = IF c < 0 THEN -1 ELSE c,
                                              !.gave_up = IF c < 0 THEN "count" ELSE @])
             [] r.shape # "raise" /\ st \in {"FAILED", "CANCELLED"} ->
                    FallbackGoes("return_false",
                                 [next EXCEPT !.file_count = -1, !.gave_up = "failed"])
             [] OTHER ->
                    IF more THEN FallbackGoes("fb_poll", [next EXCEPT !.file_count = -1])
                    ELSE FallbackGoes("return_false", [out EXCEPT !.file_count = -1])
    /\ UNCHANGED <<rdl, rr, pm, fod, jobs, args, most_files, disk, ar, timeout, idx, job_statuses,
                   all_jobs_overall_success, job_status_key, started, outcome,
                   dl_result, raised>>

\* the indexes 1..n of a set, in ascending order
RECURSIVE SortedSeq(_)
SortedSeq(S) ==
    IF S = {} THEN <<>>
    ELSE LET m == CHOOSE x \in S : \A y \in S : x <= y
         IN <<m>> \o SortedSeq(S \ {m})

\* indexes counted from zero
IndexesToTry_ZeroBased(n) == 0..(n - 1)

\* the indexes a descriptor is requested for
IndexesToTry(n) == 1..n

\* one descriptor per index 1..file_count; the valid ones are kept; no valid
\* descriptor ends the fallback, and so does an exception: of the reading
\* of baseUrl and token (no request made) or of the k-th request; gen tells
\* whether the list was made
FbGenList ==
    /\ pc = "fb_gen"
    /\ \/ \E k \in 0..fb.file_count :
          /\ calls' = [calls EXCEPT !.info = @ + k]
          /\ FallbackGoes("return_false", [fb EXCEPT !.gen = "raised"])
       \/ \E valid \in SUBSET IndexesToTry(fb.file_count) :
          /\ calls' = [calls EXCEPT !.info = @ + Cardinality(IndexesToTry(fb.file_count))]
          /\ IF valid = {}
             THEN FallbackGoes("return_false", [fb EXCEPT !.gen = "listed"])
             ELSE FallbackGoes("fb_file", [fb EXCEPT !.file_list_infos = SortedSeq(valid),
                                                     !.pos = 1, !.gen = "listed"])
    /\ UNCHANGED <<rdl, rr, pm, fod, jobs, args, most_files, disk, ar, timeout, idx, job_statuses,
                   all_jobs_overall_success, job_status_key, started, outcome,
                   dl_result, raised>>

\* what one per-file download can do: a status code, FileExistsError, or
\* another exception (of the download or of the getInfo that follows it)
FileResponses == {"200", "777", "204", "410", "404", "500", "exists", "exception"}
\* what the retry of a mat/pdf file can do
RetryResponses == {"200", "404", "exception"}

\* the three counters after the first attempt of one file
CountFile(c, r) ==
    CASE r = "200" -> [c EXCEPT !.files_downloaded_count = @ + 1]
      [] r \in {"777", "exists"} -> [c EXCEPT !.files_skipped_count = @ + 1]
      [] OTHER -> [c EXCEPT !.files_failed_count = @ + 1]

\* the retry is made in the handler of an exception, for mat and pdf only
RetriesFile(r, ext) == r = "exception" /\ NeedsLongerWait(ext)

\* a retry that leaves the file among the failed ones as well
CountRetry_NoMove(c, r) ==
    IF r = "200" THEN [c EXCEPT !.files_downloaded_count = @ + 1] ELSE c

\* the three counters after the retry of one file
CountRetry(c, r) ==
    IF r = "200"
    THEN [c EXCEPT !.files_downloaded_count = @ + 1, !.files_failed_count = @ - 1]
    ELSE c

\* one iteration of the per-file loop; the download is asked to overwrite,
\* so a file that is in the output directory already can be written again
\* (200) as well as reported (777, FileExistsError); a file that is not there
\* is never reported as existing; existed tells whether the file of this
\* iteration was there
FbDownloadFile ==
    /\ pc = "fb_file"
    /\ fb.pos <= Len(fb.file_list_infos)
    /\ \E r \in FileResponses, q \in RetryResponses, existed \in BOOLEAN :
        LET retry == RetriesFile(r, Job.ext)
            c1 == CountFile(fb, r)
            c2 == IF retry THEN CountRetry(c1, q) ELSE c1
        IN
        /\ ~retry => q = "404"
        /\ ~existed => r \notin {"777", "exists"}
        /\ calls' = [calls EXCEPT !.file = @ + (IF retry THEN 2 ELSE 1)]
        /\ fb' = [c2 EXCEPT !.pos = @ + 1, !.existed = existed,
                            !.tried = Append(@, fb.file_list_infos[fb.pos])]
        /\ pc' = IF fb.pos = Len(fb.file_list_infos) THEN "fb_sum" ELSE "fb_file"
    /\ UNCHANGED <<rdl, rr, pm, fod, jobs, args, most_files, disk, ar, timeout, idx, job_statuses,
                   all_jobs_overall_success, status_info, job_succeeded, job_status_key,
                   dp, started, outcome, dl_result, raised>>

\* an all-or-nothing verdict
FallbackVerdict_Strict(downloaded, skipped, failed) == failed = 0

\* the value returned after the per-file loop
FallbackVerdict(downloaded, skipped, failed) ==
    IF failed = 0 THEN TRUE
    ELSE IF downloaded > 0 \/ skipped > 0 THEN TRUE
    ELSE FALSE

\* the summary of the fallback and the return to process_download_jobs
FbSummary ==
    /\ pc = "fb_sum"
    /\ fb' = fb
    /\ AfterFallback(FallbackVerdict(fb.files_downloaded_count, fb.files_skipped_count,
                                     fb.files_failed_count))
    /\ UNCHANGED <<rdl, rr, pm, fod, jobs, args, most_files, disk, ar, timeout, idx, job_statuses,
                   all_jobs_overall_success, job_status_key, calls, started, outcome,
                   dl_result, raised>>

\* ----------------------------------------------------- archive branch
\* a test of the two markers that does not lower the name first
IsThumbName_CaseSensitive(n) == n \in {"a-small.png", "b-thumb.png"}

\* '-small.png' in name.lower() or '-thumb.png' in name.lower()
IsThumbName(n) == Lower(n) \in {"a-small.png", "b-thumb.png"}

\* the list kept when ext == 'png': named dict entries that are no thumbnails
RECURSIVE FilterPng(_)
FilterPng(l) ==
    IF l = <<>> THEN <<>>
    ELSE LET f == Head(l)
             keep == f.isdict /\ f.filename # "" /\ ~IsThumbName(f.filename)
         IN (IF keep THEN <<f>> ELSE <<>>) \o FilterPng(Tail(l))

\* the candidates that are counted in files_found
PotentialFiles(files, ext) == IF ext = "png" THEN FilterPng(files) ELSE files

\* potential_filenames: the file names of the dict entries that have one
RECURSIVE PotentialFilenames(_)
PotentialFilenames(l) ==
    IF l = <<>> THEN <<>>
    ELSE (IF Head(l).isdict /\ Head(l).filename # "" THEN <<Head(l).filename>> ELSE <<>>)
         \o PotentialFilenames(Tail(l))

\* a check that finds no file in the output directory
FilesToDownload_All(names, d) == names

\* the names that are not in the output directory, in listing order
RECURSIVE FilesToDownload(_, _)
FilesToDownload(names, d) ==
    IF names = <<>> THEN <<>>
    ELSE (IF Head(names) \in d THEN <<>> ELSE <<Head(names)>>)
         \o FilesToDownload(Tail(names), d)

\* getArchivefile, the thumbnail filter, the test-mode listing (which skips
\* to the next job) and the check of the files that exist already
ArchiveList ==
    /\ pc = "list"
    /\ \E r \in ListResponses :
        /\ calls' = [calls EXCEPT !.list = @ + 1]
        /\ started' = started \cup {idx}
        /\ IF r.kind # "dict"
           THEN /\ ar' = [ar EXCEPT !.listing_failed = TRUE, !.files_failed = -1]
                /\ pc' = "arc_fin"
                /\ UNCHANGED <<status_info, job_succeeded, idx, outcome>>
           ELSE LET potential == PotentialFiles(r.files, Job.ext)
                    found == Len(potential)
                    names == PotentialFilenames(potential)
                    todo == FilesToDownload(names, disk)
                    use == ~args.test /\ found > 0
                IN  IF args.test /\ found > 0
                    THEN /\ job_succeeded' = TRUE
                         /\ status_info' = [status_info EXCEPT !.status = "Success"]
                         /\ ar' = [ar EXCEPT !.files_found = found, !.listing = r.files]
                         /\ idx' = idx + 1
                         /\ outcome' = Append(outcome, "Success")
                         /\ pc' = "loop"
                    ELSE /\ ar' = [ar EXCEPT
                                    !.files_found = found,
                                    !.files_existing = IF use THEN Len(names) - Len(todo) ELSE 0,
                                    !.files_skipped = IF use THEN Len(names) - Len(todo) ELSE 0,
                                    !.files_to_download = IF use THEN todo ELSE <<>>,
                                    !.i = 1,
                                    !.listing = r.files,
                                    !.names = IF use THEN names ELSE <<>>,
                                    !.present = IF use
                                                THEN {names[k] : k \in DOMAIN names} \cap disk
                                                ELSE {}]
                         /\ pc' = IF use /\ todo # <<>> THEN "arc_dl" ELSE "arc_fin"
                         /\ UNCHANGED <<status_info, job_succeeded, idx, outcome>>
    /\ UNCHANGED <<rdl, rr, pm, fod, jobs, args, most_files, disk, timeout, job_statuses,
                   all_jobs_overall_success, job_status_key, dp, fb, dl_result, raised>>

\* a client that does not keep what it downloads
DiskAfterGetFile_Lost(d, name, r) == d

\* getFile writes the file into the output directory of the client, which
\* is output_path, when it returns normally
DiskAfterGetFile(d, name, r) == IF r = "ok" THEN d \cup {name} ELSE d

\* one getFile call of the download loop
ArchiveGetFile ==
    /\ pc = "arc_dl"
    /\ ar.i <= Len(ar.files_to_download)
    /\ \E r \in GetFileResponses :
        /\ calls' = [calls EXCEPT !.getfile = @ + 1]
        /\ ar' = [ar EXCEPT
                    !.files_downloaded = IF r = "ok" THEN @ + 1 ELSE @,
                    !.files_skipped = IF r = "exists" THEN @ + 1 ELSE @,
                    !.files_failed = IF r = "error" THEN @ + 1 ELSE @,
                    !.i = @ + 1,
                    !.got = Append(@, [name |-> ar.files_to_download[ar.i], result |-> r])]
        /\ disk' = DiskAfterGetFile(disk, ar.files_to_download[ar.i], r)
    /\ pc' = IF ar.i = Len(ar.files_to_download) THEN "arc_fin" ELSE "arc_dl"
    /\ UNCHANGED <<rdl, rr, pm, fod, jobs, args, most_files, timeout, idx, job_statuses,
                   all_jobs_overall_success, status_info, job_succeeded, job_status_key,
                   dp, fb, started, outcome, dl_result, raised>>

\* a verdict that accepts only a job whose candidates were all skipped
ArchiveVerdict_AllSkipped(failed, skipped, found) == skipped = found

\* the outcome of an archive job whose listing gave at least one candidate
ArchiveVerdict(failed, skipped, found) == failed = 0 \/ skipped = found

\* the status of the archive job
ArchiveFinish ==
    /\ pc = "arc_fin"
    /\ IF ~ar.listing_failed /\ ~args.test
       THEN IF ar.files_found = 0
            THEN /\ status_info' = [status_info EXCEPT !.status = "Success",
                                                       !.reason = "No Files Found"]
                 /\ job_succeeded' = TRUE
            ELSE IF ArchiveVerdict(ar.files_failed, ar.files_skipped, ar.files_found)
                 THEN /\ status_info' =
                           [status_info EXCEPT
                              !.status = "Success",
                              !.reason = IF ar.files_skipped = ar.files_found
                                         THEN "All Files Already Exist" ELSE @]
                      /\ job_succeeded' = TRUE
                 ELSE /\ status_info' = [status_info EXCEPT !.status = "Failed",
                                                            !.reason = "Download Error(s)"]
                      /\ job_succeeded' = FALSE
       ELSE /\ status_info' = [status_info EXCEPT !.status = "Failed",
                                                  !.reason = "Listing Error"]
            /\ job_succeeded' = FALSE
    /\ pc' = "store"
    /\ UNCHANGED <<rdl, rr, pm, fod, jobs, args, most_files, disk, ar, timeout, idx, job_statuses,
                   all_jobs_overall_success, job_status_key, dp, fb, calls, started,
                   outcome, dl_result, raised>>

\* the counts recorded for an archive job
ArDetails(a) ==
    [files_expected |-> a.files_found, files_downloaded |-> a.files_downloaded,
     files_skipped |-> a.files_skipped, files_failed |-> a.files_failed]

\* a final determination that leaves every status as it is
NeedsFailed_Never(succeeded, status) == FALSE

\* a job that did not succeed and is neither Skipped nor Failed yet is Failed
NeedsFailed(succeeded, status) == ~succeeded /\ status \notin {"Skipped", "Failed"}

\* ------------------------------------------------ end of one job's turn
\* final status determination of the data-product branch
FinalStatus ==
    /\ pc = "final"
    /\ status_info' =
         IF NeedsFailed(job_succeeded, status_info.status)
         THEN [status_info EXCEPT
                 !.status = "Failed",
                 !.reason = IF status_info.reason # "" THEN @
                            ELSE IF dp.job_status_final # "UNKNOWN"
                                 THEN "Processing Failed (ONC Status: "
                                        \o dp.job_status_final \o ")"
                                 ELSE "Processing Failed"]
         ELSE status_info
    /\ pc' = "store"
    /\ UNCHANGED <<rdl, rr, pm, fod, jobs, args, most_files, disk, ar, timeout, idx, job_statuses, all_jobs_overall_success,
                   job_succeeded, job_status_key, dp, fb, calls, started, outcome,
                   dl_result, raised>>

\* the counts recorded for a data-product job
DpDetails(d) ==
    [files_expected |-> d.files_dp_expected, files_downloaded |-> d.files_dp_downloaded,
     files_skipped |-> d.files_dp_skipped, files_failed |-> d.files_dp_failed]

\* the aggregate flag after one more job status
UpdateOverall(flag, status) == IF status = "Failed" THEN FALSE ELSE flag

\* job_statuses[job_status_key] = status_info
StoreEntry(map, key, info) ==
    [k \in (DOMAIN map) \cup {key} |-> IF k = key THEN info ELSE map[k]]

\* the counts are put into the record, the record into the status map, and
\* the aggregate flag is updated
StoreStatus ==
    /\ pc = "store"
    /\ LET info == [status_info EXCEPT
                       !.details = IF Job.job_type = "dataproduct" THEN DpDetails(dp)
                                   ELSE ArDetails(ar)] IN
        /\ status_info' = info
        /\ job_statuses' = StoreEntry(job_statuses, job_status_key, info)
        /\ all_jobs_overall_success' = UpdateOverall(all_jobs_overall_success, info.status)
        /\ outcome' = Append(outcome, info.status)
    /\ idx' = idx + 1
    /\ pc' = "loop"
    /\ UNCHANGED <<rdl, rr, pm, fod, jobs, args, most_files, disk, ar, timeout, job_succeeded, job_status_key, dp, fb, calls,
                   started, dl_result, raised>>

Next ==
    \/ StartJob \/ Return \/ RunStep \/ CheckStatus
    \/ Step2Begin \/ BulkReturn \/ Recheck
    \/ FbStart \/ FbPoll \/ FbGenList \/ FbDownloadFile \/ FbSummary
    \/ ArchiveList \/ ArchiveGetFile \/ ArchiveFinish
    \/ FinalStatus \/ StoreStatus

Spec == Init /\ [][Next]_vars

\* the whole run under weak fairness: a step that can be taken is taken
FairSpec == Spec /\ WF_vars(Next)

\* -------------------------------------------- find_overlapping_deployments
\* the state of process_download_jobs, which does not run during the search
jobsvars == <<jobs, args, most_files, timeout, disk, pc, idx, job_statuses,
              all_jobs_overall_success, status_info, job_succeeded, job_status_key, dp, fb,
              ar, calls, started, outcome, dl_result, raised>>

\* a value of the "begin" or "end" key of a deployment: absent (None or ''),
\* a string isoparse rejects, or an ISO date with the local time t, naive or
\* with the UTC offset off; begin_skips of the state counts the entries
\* examined so far whose begin is absent or rejected
DateStrings ==
    {[kind |-> k, t |-> 0, aware |-> FALSE, off |-> 0] : k \in {"absent", "bad"}}
    \cup {[kind |-> "date", t |-> t, aware |-> FALSE, off |-> 0] : t \in 0..MaxTime}
    \cup {[kind |-> "date", t |-> MaxTime, aware |-> TRUE, off |-> 1]}

\* one entry of the list getDeployments returns
DeploymentEntries ==
    {[isdict |-> TRUE, begin |-> b, end |-> e] : b \in DateStrings, e \in DateStrings}
    \cup {[isdict |-> FALSE, begin |-> CHOOSE d \in DateStrings : d.kind = "absent",
           end |-> CHOOSE d \in DateStrings : d.kind = "absent"]}

\* what getDeployments can answer or raise for one device
DeploymentResponses ==
    {[kind |-> k, len |-> 0] : k \in {"nonlist", "http404", "httperror", "error"}}
    \cup {[kind |-> "list", len |-> n] : n \in 0..MaxDeployments}

\* what getDevices can answer or raise: the number of devices of the list
DeviceResponses ==
    {[kind |-> "raise", len |-> 0]} \cup {[kind |-> "list", len |-> n] : n \in 0..MaxDevices}

\* the windows and clock readings the search is started with: end_utc > start_utc
FodStarts ==
    {[NoFod EXCEPT !.pc = "locations", !.start_utc = w[1], !.end_utc = w[2], !.utcnow = w[3]] :
        w \in {x \in (0..MaxTime) \X (0..MaxTime) \X (0..MaxTime) : x[1] < x[2]}}

\* dtparse.isoparse followed by replace(tzinfo=UTC) for a naive date and by
\* astimezone(UTC) for an aware one: the instant, in UTC
ToUTC(d) == IF d.aware THEN d.t - d.off ELSE d.t

\* a comparison that leaves out the deployments that touch the window
Overlaps_Strict(b, e, start_utc, end_utc) == b < end_utc /\ e > start_utc

\* b <= end_utc and e >= start_utc
Overlaps(b, e, start_utc, end_utc) == b <= end_utc /\ e >= start_utc

\* the end of a deployment: the parsed "end", the clock reading without one
EndOf(dep, utcnow) == IF dep.end.kind = "absent" THEN utcnow ELSE ToUTC(dep.end)

\* a loop body that takes a deployment without a usable begin as a match
DeploymentVerdict_DefaultBegin(dep, start_utc, end_utc, utcnow) ==
    CASE ~dep.isdict -> "skipped"
      [] dep.isdict /\ dep.begin.kind # "date" -> "found"
      [] dep.isdict /\ dep.begin.kind = "date" /\ dep.end.kind = "bad" -> "skipped"
      [] OTHER ->
            IF Overlaps(ToUTC(dep.begin), EndOf(dep, utcnow), start_utc, end_utc)
            THEN "found" ELSE "none"

\* what the body of the deployment loop does with one entry
DeploymentVerdict(dep, start_utc, end_utc, utcnow) ==
    CASE ~dep.isdict -> "skipped"
      [] dep.isdict /\ dep.begin.kind = "absent" -> "skipped"
      [] dep.isdict /\ dep.begin.kind = "bad" -> "skipped"
      [] dep.isdict /\ dep.begin.kind = "date" /\ dep.end.kind = "bad" -> "skipped"
      [] OTHER ->
            IF Overlaps(ToUTC(dep.begin), EndOf(dep, utcnow), start_utc, end_utc)
            THEN "found" ELSE "none"

\* getLocations: the location map, or ONCInteractionError
FodGetLocations ==
    /\ fod.pc = "locations"
    /\ \/ fod' = [fod EXCEPT !.pc = "raised", !.error = "ONCInteractionError"]
       \/ fod' = [fod EXCEPT !.pc = "devices"]
    /\ UNCHANGED <<jobsvars, rdl, rr, pm>>

\* getDevices: ONCInteractionError, an early return of an empty list, or the
\* device loop
FodGetDevices ==
    /\ fod.pc = "devices"
    /\ \E r \in DeviceResponses :
        fod' = CASE r.kind = "raise" ->
                        [fod EXCEPT !.pc = "raised", !.error = "ONCInteractionError"]
                 [] r.kind = "list" /\ r.len = 0 -> [fod EXCEPT !.pc = "returned"]
                 [] OTHER -> [fod EXCEPT !.pc = "device", !.all_hydrophones = r.len,
                                         !.dev = 1]
    /\ UNCHANGED <<jobsvars, rdl, rr, pm>>

\* one device of the loop: an invalid entry or a failed getDeployments call
\* skips the device
FodGetDeployments ==
    /\ fod.pc = "device"
    /\ fod.dev <= fod.all_hydrophones
    /\ \E valid \in BOOLEAN, r \in DeploymentResponses :
        /\ ~valid => r.kind = "error"
        /\ fod' = IF ~valid \/ r.kind # "list"
                  THEN [fod EXCEPT !.skipped_devices_count = @ + 1, !.dev = @ + 1]
                  ELSE IF r.len = 0
                       THEN [fod EXCEPT !.dev = @ + 1, !.device_deployments = 0]
                       ELSE [fod EXCEPT !.pc = "deployment", !.device_deployments = r.len,
                                        !.k = 1]
    /\ UNCHANGED <<jobsvars, rdl, rr, pm>>

\* one deployment of the device: its dates are parsed and it is appended
\* when it overlaps the window
FodCheckDeployment ==
    /\ fod.pc = "deployment"
    /\ fod.k <= fod.device_deployments
    /\ \E dep \in DeploymentEntries :
        LET v == DeploymentVerdict(dep, fod.start_utc, fod.end_utc, fod.utcnow)
            more == fod.k < fod.device_deployments
        IN fod' = [fod EXCEPT
                     !.deployments = IF v = "found" THEN Append(@, <<fod.dev, fod.k>>) ELSE @,
                     !.skipped_deployments_count = IF v = "skipped" THEN @ + 1 ELSE @,
                     !.begin_skips = IF dep.isdict /\ dep.begin.kind # "date"
                                     THEN @ + 1 ELSE @,
                     !.last = [valid |-> TRUE, pos |-> <<fod.dev, fod.k>>,
                               isdict |-> dep.isdict, begin |-> dep.begin, end |-> dep.end],
                     !.k = IF more THEN @ + 1 ELSE @,
                     !.dev = IF more THEN @ ELSE @ + 1,
                     !.pc = IF more THEN "deployment" ELSE "device"]
    /\ UNCHANGED <<jobsvars, rdl, rr, pm>>

\* after the device loop: NoDataError for an empty result, else the return
FodFinish ==
    /\ fod.pc = "device"
    /\ fod.dev > fod.all_hydrophones
    /\ fod' = IF fod.deployments = <<>>
              THEN [fod EXCEPT !.pc = "raised", !.error = "NoDataError"]
              ELSE [fod EXCEPT !.pc = "returned"]
    /\ UNCHANGED <<jobsvars, rdl, rr, pm>>

\* process_download_jobs is not running
JobsIdle ==
    /\ jobs = <<>>
    /\ args = [test |-> FALSE, yes |-> TRUE, has_fallback_retries |-> TRUE,
               fallback_retries |-> MaxFallbackRetries]
    /\ most_files = MaxFileCount
    /\ timeout = DEFAULT_ONC_TIMEOUT
    /\ disk = {}
    /\ pc = "idle"
    /\ idx = 1
    /\ job_statuses = <<>>
    /\ all_jobs_overall_success = TRUE
    /\ status_info = InitStatusInfo
    /\ job_succeeded = FALSE
    /\ job_status_key = ""
    /\ dp = InitDp
    /\ fb = InitFb
    /\ ar = InitAr
    /\ calls = NoCalls
    /\ started = {}
    /\ outcome = <<>>
    /\ dl_result = NoBulk
    /\ raised = FALSE

OverlapInit == JobsIdle /\ fod \in FodStarts /\ rdl = NoRdl /\ rr = NoRr /\ pm = NoPm

OverlapNext ==
    \/ FodGetLocations \/ FodGetDevices \/ FodGetDeployments
    \/ FodCheckDeployment \/ FodFinish

\* one call of find_overlapping_deployments
OverlapSpec == OverlapInit /\ [][OverlapNext]_vars

\* ------------------------------------------------------- run_download_logic
\* the dates params can hold under start_dt and end_dt
RdlDates ==
    {NoDate}
    \cup {[kind |-> "date", t |-> t, aware |-> FALSE, off |-> 0] : t \in 0..MaxTime}
    \cup {[kind |-> "date", t |-> t, aware |-> TRUE, off |-> 1] : t \in 0..MaxTime}

\* the params the function is called with: has_service when onc_service and
\* chosen_deployments are both there and not None, has_deps when the chosen
\* list is not empty; tz_off is the offset of the zone params name, sys_off
\* the offset of the zone of the machine
RdlStarts ==
    {[NoRdl EXCEPT !.pc = "start", !.has_service = b[1], !.has_deps = b[2], !.token = b[3],
                   !.test = b[4], !.yes = b[5], !.start_dt = d[1], !.end_dt = d[2],
                   !.tz_off = z[1], !.sys_off = z[2]] :
        b \in [1..5 -> BOOLEAN], d \in RdlDates \X RdlDates, z \in {0, 1} \X {0, 1}}

\* datetime.astimezone(UTC): the instant, a naive datetime being read in the
\* zone of the machine
Astimezone(d, sys_off) == IF d.aware THEN d.t - d.off ELSE d.t - sys_off

\* datetime.replace(tzinfo=local_zone): the same wall time in the zone of params
ReplaceTz(d, tz_off) == [d EXCEPT !.aware = TRUE, !.off = tz_off]

\* the check that decides whether setup and discovery are skipped, and the
\* skipping branch: the window is taken from params as it is
RdlBegin ==
    /\ rdl.pc = "start"
    /\ IF rdl.has_service
       THEN IF rdl.start_dt.kind = "absent" \/ rdl.end_dt.kind = "absent"
            THEN rdl' = [rdl EXCEPT !.pc = "raised", !.skip_discovery = TRUE,
                                    !.error = "exception"]
            ELSE rdl' = [rdl EXCEPT !.pc = "core", !.skip_discovery = TRUE,
                                    !.onc_service = TRUE, !.chosen_deps = rdl.has_deps,
                                    !.has_window = TRUE,
                                    !.start_utc = Astimezone(rdl.start_dt, rdl.sys_off),
                                    !.end_utc = Astimezone(rdl.end_dt, rdl.sys_off)]
       ELSE rdl' = [rdl EXCEPT !.pc = "setup"]
    /\ UNCHANGED <<jobsvars, fod, rr, pm>>

\* full setup and discovery: the token, the dates and their order are
\* validated, then the service is asked for the deployments and the user for
\* a choice; every exception of the block ends the function with 1
RdlSetup ==
    /\ rdl.pc = "setup"
    /\ LET naive == ~rdl.start_dt.aware \/ ~rdl.end_dt.aware
           start_local == IF naive THEN ReplaceTz(rdl.start_dt, rdl.tz_off) ELSE rdl.start_dt
           end_local == IF naive THEN ReplaceTz(rdl.end_dt, rdl.tz_off) ELSE rdl.end_dt
           fail(e) == [rdl EXCEPT !.pc = "returned", !.ret = 1, !.error = e]
       IN
       IF ~rdl.token THEN rdl' = fail("ConfigError")
       ELSE IF rdl.start_dt.kind = "absent" \/ rdl.end_dt.kind = "absent"
       THEN rdl' = fail("ConfigError")
       ELSE IF Astimezone(end_local, 0) <= Astimezone(start_local, 0)
       THEN rdl' = fail("ValueError")
       ELSE \E found \in {"error", "abort", "none", "some"} :
              rdl' = IF found \in {"error", "abort"}
                     THEN fail(IF found = "abort" THEN "UserAbortError" ELSE "exception")
                     ELSE [rdl EXCEPT !.pc = "core", !.onc_service = TRUE,
                                      !.chosen_deps = (found = "some"),
                                      !.has_window = TRUE,
                                      !.start_utc = Astimezone(start_local, 0),
                                      !.end_utc = Astimezone(end_local, 0)]
    /\ UNCHANGED <<jobsvars, fod, rr, pm>>

\* the core logic up to the job request: the parameters must be there, then
\* request_onc_jobs is called with the window; it answers with jobs or
\* raises NoDataError or another exception (the calibration step in between
\* catches its own errors and does not touch the window)
RdlRequest ==
    /\ rdl.pc = "core"
    /\ IF ~rdl.onc_service \/ ~rdl.chosen_deps \/ ~rdl.has_window
       THEN rdl' = [rdl EXCEPT !.pc = "returned", !.ret = 1, !.error = "HydroDLError"]
       ELSE \E answer \in {"jobs", "nodata", "error"} :
              LET called == [rdl EXCEPT !.requested = TRUE, !.req_start = rdl.start_utc,
                                        !.req_end = rdl.end_utc]
              IN rdl' = CASE answer = "jobs" -> [called EXCEPT !.pc = "confirm"]
                          [] answer = "nodata" ->
                                [called EXCEPT !.pc = "returned", !.ret = 0,
                                               !.error = "NoDataError"]
                          [] OTHER ->
                                [called EXCEPT !.pc = "returned", !.ret = 1,
                                               !.error = "exception"]
    /\ UNCHANGED <<jobsvars, fod, rr, pm>>

\* the confirmation, asked for on the command line only
RdlConfirm ==
    /\ rdl.pc = "confirm"
    /\ IF ~rdl.yes /\ ~rdl.test /\ ~rdl.skip_discovery
       THEN \E proceed \in BOOLEAN :
              rdl' = IF proceed THEN [rdl EXCEPT !.pc = "process"]
                     ELSE [rdl EXCEPT !.pc = "returned", !.ret = 2,
                                      !.error = "UserAbortError"]
       ELSE rdl' = [rdl EXCEPT !.pc = "process"]
    /\ UNCHANGED <<jobsvars, fod, rr, pm>>

\* the downloads: none in test mode, else process_download_jobs, whose
\* verdict, or exception, gives the value returned
RdlProcess ==
    /\ rdl.pc = "process"
    /\ IF rdl.test
       THEN rdl' = [rdl EXCEPT !.pc = "returned", !.ret = 0]
       ELSE \E verdict \in {"success", "failure", "raise"} :
              rdl' = [rdl EXCEPT !.pc = "returned", !.processed = TRUE,
                                 !.ret = IF verdict = "success" THEN 0 ELSE 1,
                                 !.error = IF verdict = "raise" THEN "exception" ELSE @]
    /\ UNCHANGED <<jobsvars, fod, rr, pm>>

RdlInit == JobsIdle /\ fod = NoFod /\ rdl \in RdlStarts /\ rr = NoRr /\ pm = NoPm

RdlNext == RdlBegin \/ RdlSetup \/ RdlRequest \/ RdlConfirm \/ RdlProcess

\* one call of run_download_logic
RdlSpec == RdlInit /\ [][RdlNext]_vars

\* ------------------------------------------------------------ retry_request
\* what one call of the wrapped function does: an answer (a dict with a
\* request id, a dict without, something else), an HTTPError with the
\* status of its response or without a response, another exception
RrAnswers == {"dict_id", "dict_noid", "nondict"}
RrHttpErrors == {"400", "500", "502", "503", "504", "noresp"}
RrResponses == RrAnswers \cup RrHttpErrors \cup {"exception"}

\* the calls: max_retries and initial_wait as the caller chooses them
\* (request_onc_jobs passes 3 and 2), for the products of a deployment in
\* data-product mode
RrStarts ==
    {[NoRr EXCEPT !.pc = "call", !.max_retries = m, !.initial_wait = w,
                  !.products = n, !.product = 1] :
        m \in 0..MaxRetries, w \in {1, 2}, n \in 1..MaxProducts}

\* a helper that waits and tries again for every server error
IsRetried_Any5xx(r) == r \in {"500", "502", "503", "504"}

\* the errors the loop waits and tries again for
IsRetried(r) == r = "500"

\* one iteration of the for loop: the call, and the handler of its HTTPError;
\* seen lists what the calls of this request did, issued counts the products
\* requestDataProduct was called for
RrAttempt ==
    /\ rr.pc = "call"
    /\ rr.attempt < rr.max_retries
    /\ \E r \in RrResponses :
        LET called == [rr EXCEPT !.calls = @ + 1, !.last = r, !.seen = Append(@, r),
                                 !.issued = IF rr.calls = 0 THEN @ + 1 ELSE @] IN
        rr' = CASE r \in RrAnswers -> [called EXCEPT !.pc = "returned", !.result = r]
                [] r \in RrHttpErrors /\ IsRetried(r) /\ rr.attempt < rr.max_retries - 1 ->
                      [called EXCEPT !.attempt = @ + 1,
                                     !.slept = Append(@, rr.initial_wait * 2^(rr.attempt))]
                [] OTHER -> [called EXCEPT !.pc = "raised", !.result = "raised"]
    /\ UNCHANGED <<jobsvars, fod, rdl, pm>>

\* the loop has nothing to iterate over, or nothing left: None is returned
RrFallThrough ==
    /\ rr.pc = "call"
    /\ rr.attempt >= rr.max_retries
    /\ rr' = [rr EXCEPT !.pc = "returned", !.result = "none"]
    /\ UNCHANGED <<jobsvars, fod, rdl, pm>>

\* request_onc_jobs after the call: a job for an answer with a request id,
\* else the product is given up; the loop goes on with the next product
RrCaller ==
    /\ rr.pc \in {"returned", "raised"}
    /\ rr' = [rr EXCEPT !.pc = IF rr.product < rr.products THEN "call" ELSE "after_loop",
                        !.product = @ + 1,
                        !.jobs = IF rr.result = "dict_id" THEN @ + 1 ELSE @,
                        !.failures = IF rr.result = "dict_id" THEN @ ELSE @ + 1,
                        !.given_up = (rr.result = "raised"),
                        !.attempt = NoCall.attempt, !.calls = NoCall.calls,
                        !.slept = NoCall.slept, !.seen = NoCall.seen,
                        !.last = NoCall.last, !.result = NoCall.result]
    /\ UNCHANGED <<jobsvars, fod, rdl, pm>>

\* a caller for which every error is a failure
ExitCode_ErrorsFail(error) == IF error = "UserAbortError" THEN 2 ELSE 1

\* the value run_download_logic returns for an exception of its core logic
ExitCode(error) ==
    CASE error = "UserAbortError" -> 2
      [] error = "NoDataError" -> 0
      [] OTHER -> 1

\* the end of request_onc_jobs in data-product mode: without a job it raises
\* NoDataError, which run_download_logic turns into its return value; else
\* the jobs are returned
RrFinish ==
    /\ rr.pc = "after_loop"
    /\ rr' = IF rr.jobs = 0
             THEN [rr EXCEPT !.pc = "finished", !.error = "NoDataError",
                             !.exit_code = ExitCode("NoDataError")]
             ELSE [rr EXCEPT !.pc = "finished"]
    /\ UNCHANGED <<jobsvars, fod, rdl, pm>>

RetryInit == JobsIdle /\ fod = NoFod /\ rdl = NoRdl /\ rr \in RrStarts /\ pm = NoPm

RetryNext == RrAttempt \/ RrFallThrough \/ RrCaller \/ RrFinish

\* the data-product requests of request_onc_jobs
RetrySpec == RetryInit /\ [][RetryNext]_vars

\* ------------------------------------------------------------- parallel_map
\* the calls: n items, the size of the pool, ignore_errors
PmStarts ==
    {[NoPm EXCEPT !.pc = "submit", !.n = n, !.max_workers = w, !.ignore_errors = g] :
        n \in 0..MaxItems, w \in 1..MaxWorkers, g \in BOOLEAN}

\* the items whose call of the mapped function is in progress
Running(p) == {i \in DOMAIN p.st : p.st[i] = "running"}

\* the items a thread of the pool is busy with: the mapped function runs, or
\* it has returned and the progress counter is being updated
Busy(p) == {i \in DOMAIN p.st : p.st[i] \in {"running", "counting"}}

\* a pool that starts a thread for every task
WorkerFree_Unbounded(running, max_workers) == TRUE

\* ThreadPoolExecutor(max_workers): a queued task starts when fewer than
\* max_workers are running
WorkerFree(running, max_workers) == running < max_workers

\* executor.submit for every item: the futures wait in the queue of the pool
PmSubmit ==
    /\ pm.pc = "submit"
    /\ pm' = [pm EXCEPT !.pc = "collect", !.st = [i \in 1..pm.n |-> "queued"],
                        !.out = [i \in 1..pm.n |-> "none"],
                        !.loaded = [i \in 1..pm.n |-> 0]]
    /\ UNCHANGED <<jobsvars, fod, rdl, rr>>

\* a thread of the pool takes the task at the head of the queue
PmWorkerStart ==
    /\ pm.pc \in {"collect", "raised", "returned"}
    /\ \E i \in DOMAIN pm.st :
        /\ pm.st[i] = "queued"
        /\ \A j \in DOMAIN pm.st : pm.st[j] = "queued" => i <= j
        /\ WorkerFree(Cardinality(Busy(pm)), pm.max_workers)
        /\ pm' = [pm EXCEPT !.st[i] = "running"]
    /\ UNCHANGED <<jobsvars, fod, rdl, rr>>

\* the mapped function ends inside process_with_progress: when it raised,
\* the future is done, with the exception or, with ignore_errors, with None
\* after the exception was noted; when it returned, the thread goes on to
\* 'completed += 1' and loads the counter the threads share
PmWorkerFinish ==
    /\ \E i \in Running(pm), o \in {"value", "null", "raise"} :
        pm' = IF o = "raise"
              THEN [pm EXCEPT !.st[i] = "done",
                              !.out[i] = IF pm.ignore_errors THEN "null" ELSE o,
                              !.errors = IF pm.ignore_errors THEN @ + 1 ELSE @]
              ELSE [pm EXCEPT !.st[i] = "counting", !.out[i] = o,
                              !.loaded[i] = pm.completed]
    /\ UNCHANGED <<jobsvars, fod, rdl, rr>>

\* the thread stores the value it loaded, plus one, into the counter, and
\* the future is done; nothing orders the load and the store of one thread
\* with those of the others
PmWorkerCount ==
    /\ \E i \in DOMAIN pm.st :
        /\ pm.st[i] = "counting"
        /\ pm' = [pm EXCEPT !.st[i] = "done", !.completed = pm.loaded[i] + 1]
    /\ UNCHANGED <<jobsvars, fod, rdl, rr>>

\* one iteration of the loop over as_completed: a finished future, whichever
\* comes, gives its result, which is appended, or its exception, which
\* leaves the function
PmCollect ==
    /\ pm.pc = "collect"
    /\ \E i \in DOMAIN pm.st :
        /\ pm.st[i] = "done" /\ i \notin pm.collected
        /\ pm' = IF pm.out[i] = "raise"
                 THEN [pm EXCEPT !.pc = "raised", !.shutdown = TRUE,
                                 !.collected = @ \cup {i}]
                 ELSE [pm EXCEPT !.collected = @ \cup {i},
                                 !.results = IF pm.out[i] # "null" \/ ~pm.ignore_errors
                                             THEN Append(@, [item |-> i, value |-> pm.out[i]])
                                             ELSE @]
    /\ UNCHANGED <<jobsvars, fod, rdl, rr>>

\* every future was collected: the list is returned
PmReturn ==
    /\ pm.pc = "collect"
    /\ pm.collected = DOMAIN pm.st
    /\ pm' = [pm EXCEPT !.pc = "returned"]
    /\ UNCHANGED <<jobsvars, fod, rdl, rr>>

ParallelInit == JobsIdle /\ fod = NoFod /\ rdl = NoRdl /\ rr = NoRr /\ pm \in PmStarts

ParallelNext ==
    \/ PmSubmit \/ PmWorkerStart \/ PmWorkerFinish \/ PmWorkerCount
    \/ PmCollect \/ PmReturn

\* one call of parallel_map
ParallelSpec == ParallelInit /\ [][ParallelNext]_vars

\* ------------------------------------------------------------------ claims
\* the record stored for the job that was processed last
Recorded == job_statuses[job_status_key]
\* the job that was processed last is finished
JobFinished == pc \in {"loop", "done"} /\ Len(outcome) >= 1
\* the fallback of the current job ran its per-file loop to the end and returned
FbLoopDone ==
    /\ calls.fallback > 0
    /\ fb.file_list_infos # <<>>
    /\ fb.pos = Len(fb.file_list_infos) + 1
    /\ pc \notin {"fb_file", "fb_sum"}
\* the run response reported fileCount == 0 and the post-run check said complete
ZeroFilesComplete ==
    /\ dp.run_info.isdict /\ dp.run_info.hasFileCount /\ dp.run_info.fileCount = 0
    /\ dp.final_complete

\* C1: a data-product job with fileCount == 0 in the run response and a
\* post-run status COMPLETE/COMPLETED has status Success, is recorded as
\* Success when it is finished, and no bulk download, no fallback and no
\* per-file download is issued for it.
C1_ZeroFilesSuccess ==
    ZeroFilesComplete =>
        /\ calls.bulk = 0 /\ calls.fallback = 0 /\ calls.file = 0
        /\ status_info.status = "Success"
        /\ JobFinished => Recorded.status = "Success" /\ outcome[Len(outcome)] = "Success"

C1_Witness == ZeroFilesComplete /\ JobFinished /\ calls.check = 1

\* the bulk answer is one of the causes of a fallback: an exception, a
\* non-list, an empty list while the expected count is not zero, error
\* entries, or entries that are all unclassified
BulkInconclusive ==
    \/ dl_result.kind \in {"raise", "nonlist"}
    \/ dl_result.kind = "list" /\ dl_result.len = 0 /\ dp.files_dp_expected # 0
    \/ dl_result.kind = "list" /\ dl_result.errs > 0
    \/ dl_result.kind = "list" /\ dl_result.len > 0 /\ dl_result.other = dl_result.len
InFallback == pc \in {"fb_start", "fb_poll", "fb_gen", "fb_file", "fb_sum"}

\* C2: the fallback is invoked for a job only after an inconclusive bulk
\* answer, and while it runs the job was not resolved as Success by the
\* bulk stage.
C2_FallbackOnlyWhenInconclusive ==
    /\ calls.fallback > 0 => BulkInconclusive /\ calls.bulk = 1
    /\ InFallback => ~job_succeeded /\ status_info.status # "Success"

C2_Witness == pc = "fb_start" /\ dl_result.kind = "list" /\ dl_result.errs > 0

\* C3: after the per-file loop the fallback returns success whenever
\* downloaded + skipped > 0, whatever the failed count, and returns failure
\* only when downloaded + skipped = 0 and at least one file was attempted.
C3_FallbackVerdict ==
    (FbLoopDone /\ pc = "final") =>
        /\ fb.files_downloaded_count + fb.files_skipped_count > 0 => job_succeeded
        /\ ~job_succeeded =>
              /\ fb.files_downloaded_count + fb.files_skipped_count = 0
              /\ fb.files_failed_count >= 1
              /\ Len(fb.file_list_infos) >= 1

C3_Witness ==
    /\ FbLoopDone /\ pc = "final" /\ job_succeeded
    /\ fb.files_downloaded_count > 0 /\ fb.files_failed_count > 0

\* C4: a job resolved by the fallback with partial success is recorded with
\* the number of files the fallback downloaded and the number that failed
\* (2 downloaded and 1 failed of 3 give files_downloaded = 2, files_failed = 1).
C4_FallbackCountsRecorded ==
    (JobFinished /\ FbLoopDone /\ job_succeeded /\ fb.files_failed_count > 0) =>
        /\ Recorded.status = "Success"
        /\ Recorded.details.files_downloaded = fb.files_downloaded_count
        /\ Recorded.details.files_failed = fb.files_failed_count

\* C5: whenever the list returned by downloadDataProduct holds an error
\* entry, the bulk stage does not resolve the job as Success and the
\* fallback is triggered, also when the list holds skipped or downloaded entries.
C5_ErrorsFirst ==
    (dl_result.kind = "list" /\ dl_result.errs > 0) =>
        /\ dp.trigger_fallback
        /\ calls.fallback = 0 => ~job_succeeded /\ status_info.status # "Success"

\* C6: for a job resolved as Success by the bulk stage the recorded
\* files_downloaded is the number of complete/downloaded entries and
\* files_skipped the number of skipped entries.
C6_BulkCountsRecorded ==
    (JobFinished /\ dl_result.kind = "list" /\ dl_result.len > 0
       /\ calls.fallback = 0 /\ job_succeeded) =>
        /\ Recorded.status = "Success"
        /\ Recorded.details.files_downloaded = dl_result.succ
        /\ Recorded.details.files_skipped = dl_result.skip

\* C7: an exception of downloadDataProduct does not leave
\* process_download_jobs and does not mark the job Failed: it sets the
\* fallback trigger and nothing else, as an empty-but-expected answer does,
\* and the status re-check of step 3 follows.
C7_BulkExceptionTriggersFallback ==
    dl_result.kind = "raise" =>
        /\ ~raised /\ pc # "raised"
        /\ dp.trigger_fallback
        /\ pc = "step3" =>
              /\ status_info = InitStatusInfo /\ ~job_succeeded
              /\ dp.files_dp_downloaded = 0 /\ dp.files_dp_skipped = 0
              /\ dp.files_dp_failed = 0
        /\ pc # "step3" => dp.rechecked
        /\ (dp.recheck_complete /\ pc # "step3") => calls.fallback = 1

C7_Witness == dl_result.kind = "raise" /\ JobFinished /\ Recorded.status = "Success"

\* C8: after an inconclusive bulk stage the status is checked again; the
\* fallback is called only if the re-check says COMPLETE/COMPLETED;
\* otherwise no fallback call is issued and the job ends Failed.
C8_FallbackOnlyIfStillComplete ==
    /\ calls.fallback > 0 => dp.rechecked /\ dp.recheck_complete /\ calls.check >= 2
    /\ (pc \notin {"bulk", "step3"} /\ dp.trigger_fallback) => dp.rechecked
    /\ (dp.rechecked /\ ~dp.recheck_complete) =>
          /\ calls.fallback = 0 /\ calls.count = 0 /\ calls.info = 0 /\ calls.file = 0
          /\ pc \in {"store", "loop", "done"} => status_info.status = "Failed"
          /\ JobFinished => Recorded.status = "Failed"

C8_Witness ==
    dp.rechecked /\ ~dp.recheck_complete /\ JobFinished /\ Recorded.status = "Failed"

\* C9: every job of the list is processed: the first remote call of every
\* job is eventually issued and the function returns without raising,
\* whatever happened to the earlier jobs.
C9_EveryJobProcessed == <>(pc = "done" /\ ~raised /\ started = 1..Len(jobs))

C9_Witness ==
    /\ pc = "done" /\ Len(jobs) = 2 /\ outcome[1] = "Failed" /\ started = {1, 2}

\* C10: the aggregate flag is false exactly when the returned status map
\* holds an entry whose status is Failed.
C10_FlagIffFailedEntry ==
    pc = "done" =>
        (~all_jobs_overall_success
            <=> \E k \in DOMAIN job_statuses : job_statuses[k].status = "Failed")

\* C11: when process_download_jobs returns, the status map holds exactly one
\* entry for every job of the input list: as many entries as jobs, and the
\* key of every job among them, also for two jobs of one device and
\* extension and in test mode.
C11_OneEntryPerJob ==
    pc = "done" =>
        /\ Cardinality(DOMAIN job_statuses) = Len(jobs)
        /\ \A i \in DOMAIN jobs : JobKey(jobs[i]) \in DOMAIN job_statuses

\* the job that was processed last is a data-product job whose status is stored
DpFinished == JobFinished /\ jobs[idx - 1].job_type = "dataproduct"

\* C12: a job whose runDataProduct call fails with HTTP 400 and the
\* permission text has status Skipped and never Failed, no status check and
\* no download of any kind is issued for it, it is recorded as Skipped, and
\* storing it leaves the aggregate flag as the earlier jobs left it.
C12_PermissionErrorSkipped ==
    dp.run_resp = "perm" =>
        /\ status_info.status = "Skipped"
        /\ calls.check = 0 /\ calls.bulk = 0 /\ calls.fallback = 0
        /\ calls.count = 0 /\ calls.info = 0 /\ calls.file = 0
        /\ pc \in {"final", "store", "loop", "done"}
        /\ DpFinished =>
              /\ Recorded.status = "Skipped"
              /\ all_jobs_overall_success
                   <=> \A i \in 1..(Len(outcome) - 1) : outcome[i] # "Failed"

C12_Witness ==
    /\ dp.run_resp = "perm" /\ DpFinished /\ pc = "done"
    /\ all_jobs_overall_success /\ Recorded.status = "Skipped"

\* C13: a job whose run response is a dict without a usable run id ends
\* Failed and no file operation is issued for it: no downloadDataProduct
\* call, no file-count query, no descriptor request, no per-file download.
C13_NoRunIdFailed ==
    dp.run_resp = "dict_noid" =>
        /\ calls.bulk = 0 /\ calls.fallback = 0
        /\ calls.count = 0 /\ calls.info = 0 /\ calls.file = 0
        /\ pc \in {"final", "store", "loop", "done"}
        /\ pc \in {"store", "loop", "done"} => status_info.status = "Failed"
        /\ DpFinished => Recorded.status = "Failed" /\ ~all_jobs_overall_success

C13_Witness ==
    dp.run_resp = "dict_noid" /\ DpFinished /\ Recorded.status = "Failed" /\ pc = "done"

\* the reason is one of the two messages of the status check, ending with s
ReasonHolds(reason, s) ==
    reason \in {"ONC Status " \o s, "Unknown ONC Status " \o s}

\* C14: a job whose post-run status check returned a status other than
\* COMPLETE/COMPLETED has status Failed with a reason that contains the
\* status string as the service sent it, is recorded so, and neither the
\* bulk download nor the fallback is attempted for it.
C14_NonCompleteFailed ==
    dp.check_raw # "" =>
        /\ status_info.status = "Failed"
        /\ ReasonHolds(status_info.reason, dp.check_raw)
        /\ calls.bulk = 0 /\ calls.fallback = 0 /\ calls.file = 0
        /\ DpFinished =>
              Recorded.status = "Failed" /\ ReasonHolds(Recorded.reason, dp.check_raw)

\* the listing of the archive job in hand, or of the one that was processed
\* last, returned a dict
ArchiveListed == calls.list = 1 /\ ~ar.listing_failed
\* the turn of that archive job is over: its verdict is made
ArchiveJudged == ArchiveListed /\ pc \in {"store", "loop", "done"}
\* the download stage of an archive job outside test mode is over
ArchiveLoopDone ==
    ArchiveListed /\ ~args.test /\ ar.files_found > 0
        /\ pc \in {"arc_fin", "store", "loop", "done"}

\* C15: an archive job whose listing succeeded with at least one candidate
\* has the outcome Success whenever files_failed == 0 or files_skipped
\* equals the number of candidates; outside test mode it is recorded so.
C15_ArchiveVerdict ==
    (ArchiveJudged /\ ar.files_found > 0
       /\ (ar.files_failed = 0 \/ ar.files_skipped = ar.files_found)) =>
        /\ status_info.status = "Success" /\ job_succeeded
        /\ JobFinished =>
              /\ outcome[Len(outcome)] = "Success"
              /\ ~args.test => Recorded.status = "Success"

C15_Witness ==
    /\ ArchiveJudged /\ JobFinished /\ ~args.test
    /\ ar.files_downloaded > 0 /\ ar.files_failed = 0 /\ ar.files_skipped < ar.files_found
    /\ Recorded.status = "Success"

\* C16: an archive job of which at least one file was downloaded or found
\* already present and at least one download failed ends as Success, not
\* as Failed.
C16_ArchivePartialSuccess ==
    (ArchiveJudged /\ ar.files_failed > 0
       /\ ar.files_downloaded + ar.files_skipped > 0) =>
        status_info.status = "Success"

AbsentNames == SelectSeq(ar.names, LAMBDA n : n \notin ar.present)
\* the number of getFile calls of the job in hand that did r
GotCount(r) == Cardinality({k \in DOMAIN ar.got : ar.got[k].result = r})

\* C18: in an archive job getFile is called once for every candidate that
\* was absent from the output directory at the existence check, in listing
\* order, and never for a name that was present; every failed call is
\* counted in files_failed and the loop goes on with the next name.
C18_GetFileOncePerAbsent ==
    /\ \A k \in DOMAIN ar.got : ar.got[k].name \notin ar.present
    /\ calls.getfile = Len(ar.got)
    /\ pc = "arc_dl" =>
          /\ Len(ar.got) < Len(AbsentNames)
          /\ \A k \in DOMAIN ar.got : ar.got[k].name = AbsentNames[k]
    /\ ArchiveLoopDone =>
          /\ Len(ar.got) = Len(AbsentNames)
          /\ \A k \in DOMAIN ar.got : ar.got[k].name = AbsentNames[k]
          /\ ar.files_failed = GotCount("error")
          /\ ar.files_downloaded = GotCount("ok")
          /\ ar.files_skipped = ar.files_existing + GotCount("exists")

C18_Witness ==
    /\ ArchiveLoopDone /\ JobFinished /\ Len(ar.got) = 2
    /\ ar.got[1].result = "error" /\ ar.got[2].result = "ok"
    /\ Recorded.details.files_failed = 1 /\ Recorded.details.files_downloaded = 1

\* the file names of the listings that hold '-small.png' or '-thumb.png',
\* in any letter case
ThumbVariants == {"a-small.png", "B-THUMB.PNG"}
\* the entries of the listing that are candidates of a PNG job
PlainEntries(l) ==
    {k \in DOMAIN l : l[k].isdict /\ l[k].filename # "" /\ l[k].filename \notin ThumbVariants}

\* C19: in a PNG archive job the listing entries whose file name holds
\* '-small.png' or '-thumb.png' are removed first: files_expected counts
\* the other named entries only, and no such name is checked for
\* existence or passed to getFile.
C19_ThumbnailsFiltered ==
    (ArchiveListed /\ pc # "list") =>
        /\ ar.files_found = Cardinality(PlainEntries(ar.listing))
        /\ \A k \in DOMAIN ar.names : ar.names[k] \notin ThumbVariants
        /\ ar.present \cap ThumbVariants = {}
        /\ \A k \in DOMAIN ar.got : ar.got[k].name \notin ThumbVariants
        /\ (JobFinished /\ ~args.test) =>
              Recorded.details.files_expected = Cardinality(PlainEntries(ar.listing))

C19_Witness ==
    /\ ArchiveListed /\ JobFinished /\ ~args.test
    /\ Len(ar.listing) = 2 /\ ar.files_found = 1 /\ Len(ar.got) = 1
    /\ \E k \in DOMAIN ar.listing : ar.listing[k].filename \in ThumbVariants

\* the deployment examined last has a begin date and, if it has an end, an
\* end date that can be parsed
LastParseable ==
    /\ fod.last.valid /\ fod.last.isdict
    /\ fod.last.begin.kind = "date" /\ fod.last.end.kind # "bad"
\* the instants of that deployment, the end being the clock reading when
\* the deployment has none
LastBegin == IF fod.last.begin.aware THEN fod.last.begin.t - fod.last.begin.off
             ELSE fod.last.begin.t
LastEndEffective ==
    IF fod.last.end.kind = "absent" THEN fod.utcnow
    ELSE IF fod.last.end.aware THEN fod.last.end.t - fod.last.end.off ELSE fod.last.end.t
\* that deployment is in the list of results
LastSelected == \E i \in DOMAIN fod.deployments : fod.deployments[i] = fod.last.pos

\* C20: a deployment with parseable dates is put into the result, and
\* returned, if and only if its begin is not after the end of the window
\* and its effective end, the current instant for a deployment without an
\* end, is not before the start of the window.
C20_OverlapIff ==
    LastParseable =>
        /\ LastSelected <=> (LastBegin <= fod.end_utc /\ LastEndEffective >= fod.start_utc)
        /\ LastSelected => fod.pc # "raised"
        /\ fod.error = "NoDataError" => ~LastSelected

C20_Witness ==
    /\ fod.pc = "returned" /\ LastParseable /\ LastSelected
    /\ fod.last.end.kind = "absent" /\ LastBegin < fod.start_utc
    /\ fod.utcnow >= fod.end_utc

\* C21: find_overlapping_deployments never returns an empty list: when it
\* is over and no deployment overlapped the window, it has raised
\* NoDataError.
C21_NoDataRaised ==
    /\ fod.pc = "returned" => fod.deployments # <<>>
    /\ (fod.pc \in {"returned", "raised"} /\ fod.deployments = <<>>
          /\ fod.error # "ONCInteractionError") => fod.error = "NoDataError"

\* the deployment examined last is a dict whose begin is missing or rejected
LastBeginUnusable ==
    fod.last.valid /\ fod.last.isdict /\ fod.last.begin.kind \in {"absent", "bad"}

C23_WindowOrdered ==
    /\ rdl.requested => rdl.req_end > rdl.req_start
    /\ rdl.processed => rdl.end_utc > rdl.start_utc

\* the HTTP statuses of a transient server error
Transient5xx == {"500", "502", "503", "504"}

\* C24: a data-product request that fails with a transient HTTP 5xx error
\* is given up only after every attempt retry_request was allowed was made,
\* a wait preceding each attempt but the first.
C24_Transient5xxRetried ==
    (rr.result = "raised" /\ rr.last \in Transient5xx) =>
        /\ rr.calls = rr.max_retries
        /\ Len(rr.slept) = rr.max_retries - 1

\* C25: in the per-file loop of the fallback, a file that is in the output
\* directory already is counted as skipped, and neither as failed nor as
\* downloaded.
C25_ExistingFileSkipped ==
    [][(pc = "fb_file" /\ fb'.pos = fb.pos + 1 /\ fb'.existed) =>
          /\ fb'.files_skipped_count = fb.files_skipped_count + 1
          /\ fb'.files_failed_count = fb.files_failed_count
          /\ fb'.files_downloaded_count = fb.files_downloaded_count]_vars

\* C26: at no instant of a call of parallel_map are more than max_workers
\* calls of the mapped function in progress, however many items there are.
C26_WorkersBounded ==
    Cardinality(Running(pm)) <= pm.max_workers

C26_Witness ==
    /\ pm.n > pm.max_workers
    /\ Cardinality(Running(pm)) = pm.max_workers
    /\ \E i \in DOMAIN pm.st : pm.st[i] = "queued"

\* C27: the list parallel_map returns holds the results in the order of the
\* input items, whatever the order the workers finish in.
C27_ResultsInInputOrder ==
    pm.pc = "returned" =>
        \A j, k \in DOMAIN pm.results :
            j < k => pm.results[j].item < pm.results[k].item

\* C28: downloadDataProduct is called for a job only after runDataProduct
\* gave a run id and a later checkDataProduct answered COMPLETE or
\* COMPLETED, and the fallback and its per-file downloads come only after a
\* bulk download attempt for the same job.
C28_LifecycleOrder ==
    /\ (calls.bulk > 0 \/ pc = "bulk") =>
          /\ calls.run = 1 /\ dp.run_resp = "dict_id" /\ dp.actual_run_id # 0
          /\ calls.check >= 1 /\ dp.final_complete
    /\ calls.bulk <= 1
    /\ (calls.fallback > 0 \/ calls.count > 0 \/ calls.info > 0 \/ calls.file > 0
          \/ pc \in {"fb_start", "fb_poll", "fb_gen", "fb_file", "fb_sum"}) =>
          calls.bulk = 1 /\ dl_result.kind # "none"

C28_Witness ==
    /\ calls.file > 0 /\ calls.bulk = 1 /\ dp.final_complete /\ dp.run_resp = "dict_id"
    /\ pc = "done" /\ Len(jobs) = 2 /\ calls.run = 1

\* the checkDataProduct calls of the fallback for the current job: those
\* made after the post-run check and the re-check of process_download_jobs
FallbackPolls == IF calls.fallback > 0 THEN calls.check - 2 ELSE 0

\* C29: one call of the fallback polls checkDataProduct at most
\* fallback_retries + 1 times, whatever the answers, and then leaves the
\* polling loop; it does not poll when the run response carried a file
\* count that is not negative.
C29_PollsBounded ==
    calls.fallback > 0 =>
        /\ FallbackPolls >= 0
        /\ FallbackPolls <= args.fallback_retries + 1
        /\ pc = "fb_poll" => FallbackPolls <= args.fallback_retries
        /\ (dp.run_info.isdict /\ GetFileCount(dp.run_info) >= 0) => FallbackPolls = 0

C29_Witness ==
    /\ calls.fallback > 0 /\ args.fallback_retries >= 1
    /\ FallbackPolls = args.fallback_retries + 1
    /\ fb.gave_up = "exhausted" /\ pc = "done"

\* C30: when the polling of the fallback runs out of attempts without a
\* COMPLETE status, or a poll raises, or the status is FAILED or CANCELLED,
\* or the file-count query fails or gives a negative number, the fallback
\* returns failure: no file descriptor is requested, no file is downloaded,
\* and the job is recorded as Failed.
C30_NoCountNoDownload ==
    fb.gave_up # "no" =>
        /\ fb.gave_up \in {"exhausted", "raise", "failed", "count"}
        /\ fb.file_count < 0
        /\ calls.info = 0 /\ calls.file = 0 /\ fb.file_list_infos = <<>>
        /\ pc \in {"final", "store", "loop", "done"}
        /\ ~job_succeeded
        /\ status_info.status = "Failed"
        /\ status_info.reason = "Fallback Attempted (Failed)"
        /\ DpFinished => Recorded.status = "Failed" /\ ~all_jobs_overall_success

C30_Witness ==
    /\ fb.gave_up = "count" /\ calls.count = 1 /\ DpFinished /\ pc = "done"
    /\ Recorded.status = "Failed"

\* C31: for a file count n > 0 the fallback requests one descriptor for
\* each index 1..n; with some of them valid it goes on and attempts a
\* download for every valid descriptor, in order, and for no other index;
\* with none valid it returns failure and downloads nothing.
C31_DescriptorsPerIndex ==
    fb.gen = "listed" =>
        /\ fb.file_count > 0 /\ calls.info = fb.file_count
        /\ \A i \in DOMAIN fb.file_list_infos : fb.file_list_infos[i] \in 1..fb.file_count
        /\ fb.tried = SubSeq(fb.file_list_infos, 1, fb.pos - 1)
        /\ IF fb.file_list_infos = <<>>
           THEN /\ calls.file = 0 /\ ~job_succeeded
                /\ pc \in {"final", "store", "loop", "done"}
                /\ status_info.status = "Failed"
                /\ status_info.reason = "Fallback Attempted (Failed)"
           ELSE /\ pc \in {"fb_file", "fb_sum", "final", "store", "loop", "done"}
                /\ pc # "fb_file" => fb.tried = fb.file_list_infos
                /\ calls.file >= Len(fb.tried)

C31_Witness ==
    /\ fb.gen = "listed" /\ fb.file_count = 2 /\ fb.file_list_infos = <<2>>
    /\ fb.tried = <<2>> /\ calls.info = 2 /\ pc = "done"

\* C32: for a mat or pdf job every file of the fallback whose download
\* fails, by an exception or by a failure status, gets exactly one more
\* attempt; for the other extensions no file gets a second attempt.
C32_FailedFileRetriedOnce ==
    [][(pc = "fb_file" /\ fb'.pos = fb.pos + 1) =>
          IF NeedsLongerWait(Job.ext)
          THEN /\ calls'.file - calls.file \in {1, 2}
               /\ fb'.files_failed_count > fb.files_failed_count =>
                     calls'.file - calls.file = 2
          ELSE calls'.file - calls.file = 1]_vars

\* C34: after every bulk download attempt the timeout of the client is what
\* it was before the attempt, whether downloadDataProduct returned or
\* raised; it is 300 only during the call, for mat and pdf.
C34_TimeoutRestored ==
    /\ pc # "bulk" => timeout = DEFAULT_ONC_TIMEOUT
    /\ pc = "bulk" =>
          /\ dp.original_timeout = DEFAULT_ONC_TIMEOUT
          /\ timeout = IF NeedsLongerWait(Job.ext) THEN LongTimeout ELSE DEFAULT_ONC_TIMEOUT
    /\ (calls.bulk > 0 /\ pc # "bulk") => timeout = dp.original_timeout

C34_Witness ==
    /\ calls.bulk = 1 /\ dl_result.kind = "raise" /\ pc = "done"
    /\ Len(jobs) = 1 /\ jobs[1].ext = "mat" /\ timeout = DEFAULT_ONC_TIMEOUT

\* C35: every entry of the status map has the status Success, Failed or
\* Skipped; the initial 'Unknown' is in no entry.
C35_NoUnknownStatus ==
    \A k \in DOMAIN job_statuses : job_statuses[k].status \in {"Success", "Failed", "Skipped"}

C35_Witness ==
    /\ pc = "done" /\ DpFinished /\ dp.run_resp = "nondict"
    /\ Recorded.status = "Failed"
    /\ Recorded.reason = "Processing Failed (ONC Status: INVALID_RESPONSE)"

\* C36: at the end of the per-file loop of the fallback the three counters
\* add up to the number of valid descriptors and none is negative, also
\* when the retry of a mat or pdf file moved it from failed to downloaded.
C36_CountersAddUp ==
    fb.file_list_infos # <<>> =>
        /\ fb.files_downloaded_count >= 0 /\ fb.files_skipped_count >= 0
        /\ fb.files_failed_count >= 0
        /\ fb.files_downloaded_count + fb.files_skipped_count + fb.files_failed_count
             = fb.pos - 1
        /\ pc # "fb_file" => fb.pos - 1 = Len(fb.file_list_infos)

C36_Witness ==
    /\ FbLoopDone /\ Len(fb.file_list_infos) = 1 /\ calls.file = 2
    /\ fb.files_downloaded_count = 1 /\ fb.files_failed_count = 0

\* C37: in every entry of the status map the counts files_downloaded,
\* files_skipped and files_failed are not negative.
C37_CountsNotNegative ==
    \A k \in DOMAIN job_statuses :
        /\ job_statuses[k].details.files_downloaded >= 0
        /\ job_statuses[k].details.files_skipped >= 0
        /\ job_statuses[k].details.files_failed >= 0

\* C33: retry_request with max_retries = m >= 1 calls the function at most
\* m times; it returns the answer of the first call that succeeds; an error
\* other than HTTP 500 is raised again at once, with no further call; after
\* m HTTP 500 errors in a row the last one is raised again; the wait before
\* the retry that follows the k-th failed call, k from 0, is
\* initial_wait * 2^k, and there is no wait after the last call.
C33_RetryRequestContract ==
    (rr.max_retries >= 1 /\ rr.pc \in {"call", "returned", "raised"}) =>
        /\ rr.calls <= rr.max_retries
        /\ Len(rr.seen) = rr.calls
        /\ \A k \in 1..(Len(rr.seen) - 1) : rr.seen[k] = "500"
        /\ rr.slept = [k \in 1..(IF rr.pc = "call" THEN rr.calls ELSE rr.calls - 1) |->
                          rr.initial_wait * 2^(k - 1)]
        /\ rr.pc = "call" => rr.calls < rr.max_retries
        /\ rr.pc = "returned" => rr.last \in RrAnswers /\ rr.result = rr.last
        /\ rr.pc = "raised" =>
              /\ rr.last \notin RrAnswers
              /\ rr.last = "500" => rr.calls = rr.max_retries

C33_Witness ==
    /\ rr.pc = "raised" /\ rr.max_retries = 3 /\ rr.initial_wait = 2
    /\ rr.seen = <<"500", "500", "500">> /\ rr.slept = <<2, 4>>

C38_CompletedCountsAll ==
    (pm.pc = "returned" /\ pm.errors = 0) => pm.completed = pm.n
====
